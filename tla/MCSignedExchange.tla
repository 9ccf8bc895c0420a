--------------------------- MODULE MCSignedExchange ---------------------------
(* An instance of SignedExchange: requests of every form and set-ups of     *)
(* every kind, two clients of whom one is listed, and two rotations.        *)
EXTENDS SignedExchange, TLC

MCContents == {"nothing", "order"}

None == [form |-> "none", content |-> "nothing"]
Order(form) == [form |-> form, content |-> "order"]
Empty == [form |-> "json", content |-> "nothing"]

MCBodies ==
    {None, Empty} \cup {Order(form) : form \in {"text", "json", "params", "opaque"}}

Ask(path, client, methods, bodies, types) ==
    [client : {client}, path : {path}, method : methods, body : bodies, type : types]

(* Bodies of every form, with the method and the type left to the library;   *)
(* bodies that GET and HEAD will not send; types that do not fit the body.   *)
MCRequests ==
    UNION {Ask("secure", "mobile", {"default"}, MCBodies, {"default"}),
           Ask("secure", "mobile", {"GET", "HEAD"}, {Empty, Order("json")}, {"default"}),
           Ask("secure", "mobile", {"default"}, {Order("text"), Order("opaque")}, {"json"}),
           Ask("secure", "console", {"POST"}, {None, Order("json")}, {"default"}),
           Ask("manage", "mobile", {"POST"}, {Order("json")}, {"default"})}

(* An application that puts an empty buffer in place of the bytes has had    *)
(* them captured; Express 4 fills in {}, Express 5 does not.                 *)
MCSetups ==
    {s \in [parses : {{"json"}, {"json", "params"}}, captures : BOOLEAN,
            normalises : BOOLEAN, fills : BOOLEAN, answers : BOOLEAN,
            listed : {{}, {"mobile"}}] :
        /\ s.normalises => s.captures
        /\ s.answers \/ (s.captures /\ ~s.fills)
        /\ s.listed # {} \/ s.fills
        /\ "params" \in s.parses => s.captures /\ s.answers}

MCSymmetry == Permutations(Hashes)
=============================================================================
