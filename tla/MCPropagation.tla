---------------------------- MODULE MCPropagation ----------------------------
(* Small instances of Propagation for TLC. *)
EXTENDS Propagation, TLC

CONSTANTS boot, c1, t1, t2, h0, h1, h2

TwoTargets == <<t1, t2>>

Stored(hash) == Created(Payload(hash, FALSE))

(* A target is empty, or holds the signer, or the other client as well.     *)
EmptyTarget  == [c \in ClientIds |-> NoRecord]
SeededTarget == [c \in ClientIds |-> IF c = boot THEN Stored(h0) ELSE NoRecord]
FullTarget   == [c \in ClientIds |-> IF c = boot THEN Stored(h0) ELSE Stored(h1)]

AnyTarget == {EmptyTarget, FullTarget}

NoInstant == {}
=============================================================================
