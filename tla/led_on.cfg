SPECIFICATION LedSpec
CONSTANT LedFaults = {}
INVARIANT ShownAsCommented
