SPECIFICATION FairSpec
CONSTANTS
    lan = lan
    iot = iot
    Scopes <- MCScopes
    Declared <- MCDeclared
    Rebinders = {r1}
    Playbook = playbook
    NoOne = NoOne
    MaxFaults = 3
INVARIANTS TypeOK ScopeNeverForgotten
PROPERTIES BoundScopeUntouched ScopesRecover
