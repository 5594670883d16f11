\* Two threads share the audit store, which holds one snapshot.
SPECIFICATION Spec
CONSTANTS
    Thread = {t1, t2}
    Calls <- MCCalls
    MaxAudit = 1
INVARIANTS
    TypeOK
    PolicyObeyed
    StoreSound
