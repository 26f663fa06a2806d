SPECIFICATION NearSpec
INVARIANT BlocksBelowBreak
