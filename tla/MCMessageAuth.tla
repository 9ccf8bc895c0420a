---------------------------- MODULE MCMessageAuth ----------------------------
(* A small instance of MessageAuth for TLC. *)
EXTENDS MessageAuth, TLC

CONSTANTS c1, c2, h1, h2

Boot    == <<"b">>
Client  == <<"k">>
Padded  == <<" ", "k">>
NoName  == <<" ">>
FourIds == {Boot, Client, Padded, NoName}

OneInstant == {0}
NoAddresses == {}

Credential(hash, expiresAt, purpose) ==
    [hash |-> hash, expiresAt |-> expiresAt, allowedIps |-> {},
     fromDbSeed |-> FALSE, purpose |-> purpose]

RecordsInUse ==
    {Credential(h1, Never, "any"), Credential(h1, 0, "any"),
     Credential(h2, Never, "any"), Credential(h1, Never, "propagation-only")}

Message(form, content, order) == [form |-> form, content |-> content, order |-> order]

(* One object with its keys in both orders, and another message, a text.    *)
ObjectAsSigned == Message("object", "x", "ba")
ObjectReordered == Message("object", "x", "ab")
Text == Message("text", "y", "ab")

MessagesInUse == {ObjectAsSigned, ObjectReordered, Text}

Request(api, operation, client, message) ==
    [api |-> api, operation |-> operation, client |-> client, message |-> message]

(* Messages are signed by one API and verified by both, under the same      *)
(* name, a padded one and another client's.                                 *)
RequestsInUse ==
    {Request("a", "sign", client, ObjectAsSigned) : client \in {Client, Padded, NoName}} \cup
    {Request("a", "verify", Client, ObjectAsSigned)} \cup
    {Request("b", "verify", client, message) :
        client \in {Client, Padded, Boot}, message \in {ObjectReordered, Text}}

(* Every client is stored everywhere, or API b has no bootstrap credential   *)
(* yet.                                                                      *)
AllHeld == [api \in Apis |-> [k \in FourIds |-> Credential(h1, Never, "any")]]
HeldOrUnopened == {AllHeld, [AllHeld EXCEPT !["b"][Boot] = NoRecord]}

SortedAlike == [api \in Apis |-> "ab"]

CallSymmetry == Permutations(Calls)
=============================================================================
