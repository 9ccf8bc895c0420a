---------------------------- MODULE MCSourceSync ----------------------------
(* An instance of SourceSync: two targets, a plan of each kind, a row of    *)
(* each store, two attempts and two disturbances.                           *)
EXTENDS SourceSync

MCHashes ==
    {"boot-secret", "sync-secret", "external-secret", "only-secret", "foreign",
     "row-secret", "row-rotated", "msg-row-secret", "msg-row-rotated",
     "r1-secret", "r3-original", "r3-rotated", "r4-original", "r4-rotated",
     "r5-round0", "r5-round1", "r5-round2", "c-secret", "m-original",
     "generated", "f-original", "f-rotated", "demo-secret"}

MCClientIds ==
    {"boot", "sync", "external", "only", "row", "msg-row",
     "r1", "r3", "r4", "r5", "c", "m", "f", "absent"}

MCTargetList == <<"nest", "express">>

Of(client, secret, store) == [client |-> client, secret |-> secret, store |-> store]

MCMessageCredentials == <<Of("boot", "boot-secret", "message")>>

MCHttpCredentials ==
    <<Of("boot", "boot-secret", "http"), Of("sync", "sync-secret", "http"),
      Of("external", "external-secret", "http"), Of("only", "only-secret", "http")>>

MCHttpPlans ==
    <<Of("boot", "boot-secret", "http"), Of("sync", "sync-secret", "http"),
      Of("external", "external-secret", "http")>>

MCMessagePlans == <<Of("boot", "boot-secret", "message")>>

MCSeedRows == <<Of("row", "row-secret", "http"), Of("msg-row", "msg-row-secret", "message")>>

MCRotatedSecret ==
    [secret \in {"row-secret", "msg-row-secret"} |->
        IF secret = "row-secret" THEN "row-rotated" ELSE "msg-row-rotated"]

(* Two new targets, or one of them was seeded and has another secret for *)
(* the client that signs the creation of the rows.                          *)
MCInitialTargets ==
    LET new == [k \in Targets \X Stores \X ClientIds |-> NoRecord]
        Seeded(secret) == Created(Write(secret, FALSE))
    IN  {new,
         [new EXCEPT ![<<"express", "http", "boot">>] = Seeded("boot-secret"),
                     ![<<"express", "http", "sync">>] = Seeded("foreign")]}
=============================================================================
