------------------------------- MODULE IpRules -------------------------------
(***************************************************************************)
(* The IP allowlist of a credential: how rules are read from text, stored,  *)
(* read back and matched with the address of a request.                     *)
(*                                                                         *)
(* A text is not spelled out: it is the record of the notations the parser  *)
(* tells apart.  The widths are constants (an octet of OctetBits bits, an   *)
(* IPv4 address of V4Octets octets, an IPv6 address of V6Groups groups of   *)
(* two octets), so that small addresses go through the same arithmetic.     *)
(***************************************************************************)
EXTENDS Integers, Sequences

CONSTANTS OctetBits, V4Octets, V6Groups,
          NoPrefix,    \* a rule without "/"
          JunkPrefix,  \* a "/" that is not followed by digits alone
          NoLiteral,   \* a text that holds no address
          NoRule,      \* a rule that cannot be read
          NotText,     \* an entry of a stored list that is not a string
          RuleTexts,   \* rules that administrators write
          Strays,      \* other entries a stored list may hold
          Deliveries   \* requests, by the addresses they come with

VARIABLES stored,   \* the allowedIps of the record, as stored
          intended, \* history: the rules of the last write, as written
          foreign   \* history: the list was changed from outside since then

vars == <<stored, intended, foreign>>

-----------------------------------------------------------------------------
(* 1n << n                                                                  *)
TwoTo[n \in Nat] == IF n = 0 THEN 1 ELSE 2 * TwoTo[n - 1]

Octet == 0..TwoTo[OctetBits] - 1
Group == 0..TwoTo[2 * OctetBits] - 1

Width(family)   == IF family = 4 THEN OctetBits ELSE 2 * OctetBits
MaxBits(family) == (IF family = 4 THEN V4Octets ELSE V6Groups) * Width(family)

(* A text: octets, or groups with or without "::" and a dotted tail; then   *)
(* what may surround them: brackets, a zone, a port, a list that goes on.   *)
(* "mapped" is "::ffff:" followed by octets.                                *)
Texts == [form : {"v4", "v6", "mapped", "other"},
          left : Seq(Group), gap : BOOLEAN, right : Seq(Group),
          octets : Seq(Octet),
          bracketed : BOOLEAN, zone : BOOLEAN, port : BOOLEAN, more : BOOLEAN]

\* The port of a bare IPv6 address would be read as its last group.
IsText(t) == t \in Texts /\ (t.form = "v6" /\ t.port => t.bracketed)

(* A rule: tail is a second "/" and what follows.                           *)
Rules == [text : Texts, prefix : Nat \cup {NoPrefix, JunkPrefix}, tail : BOOLEAN]

IsRule(r) == r \in Rules /\ IsText(r.text)

(* What a request comes with: req.ip, req.ips, the X-Forwarded-For values   *)
(* and the address of the socket, each possibly absent.                     *)
IsDelivery(d) ==
    /\ d \in [ip : Seq(Texts), ips : Seq(Texts), forwarded : Seq(Texts),
              remote : Seq(Texts)]
    /\ \A field \in DOMAIN d : \A i \in DOMAIN d[field] : IsText(d[field][i])
    /\ Len(d.ip) <= 1 /\ Len(d.remote) <= 1

ASSUME IpAssumption ==
    /\ {OctetBits, V4Octets, V6Groups} \subseteq Nat \ {0}
    /\ \A r \in RuleTexts \cup (Strays \ {NotText}) : IsRule(r)
    /\ \A d \in Deliveries : IsDelivery(d)
    /\ {NoPrefix, JunkPrefix} \cap Nat = {} /\ NoPrefix # JunkPrefix
    /\ NoLiteral \notin Texts /\ NotText \notin Rules
    /\ NoRule \notin [network : Texts, prefix : Nat, source : Rules]

-----------------------------------------------------------------------------
(* Reading an address.                                                      *)
Plain(form, left, gap, right, octets) ==
    [form |-> form, left |-> left, gap |-> gap, right |-> right,
     octets |-> octets, bracketed |-> FALSE, zone |-> FALSE, port |-> FALSE,
     more |-> FALSE]

GroupsOf(octets) ==
    [i \in 1..(Len(octets) \div 2) |->
        octets[2 * i - 1] * TwoTo[OctetBits] + octets[2 * i]]

(* ipv6ToBigInt: a dotted tail becomes groups, "::" becomes zeros.          *)
Expanded(t) ==
    LET right == t.right \o GroupsOf(t.octets)
    IN  t.left \o [i \in 1..(V6Groups - Len(t.left) - Len(right)) |-> 0] \o right

(* net.isIP for a text without surroundings.                                *)
IsAddress(t) ==
    \/ t.form \in {"v4", "mapped"} /\ Len(t.octets) = V4Octets
    \/ /\ t.form = "v6"
       /\ t.octets = <<>> \/ Len(t.octets) = V4Octets
       /\ LET groups == Len(t.left) + Len(t.right) + Len(t.octets) \div 2
          IN  IF t.gap THEN groups < V6Groups ELSE groups = V6Groups

(* normalizeIpLiteral: the first of a list, without brackets, zone and, for *)
(* IPv4, port; a mapped address becomes the IPv4 address it maps.           *)
Literal(t) ==
    IF ~IsAddress(t) \/ (t.form = "mapped" /\ t.port /\ ~t.bracketed)
    THEN NoLiteral
    ELSE IF t.form = "mapped"
    THEN Plain("v4", <<>>, FALSE, <<>>, t.octets)
    ELSE Plain(t.form, t.left, t.gap, t.right, t.octets)

Family(literal) == IF literal.form = "v4" THEN 4 ELSE 6

Parts(literal) ==
    IF Family(literal) = 4 THEN literal.octets ELSE Expanded(literal)

(* The numbers that the first parts make, shifted together.                 *)
Shifted(parts, width) ==
    LET number[i \in 0..Len(parts)] ==
          IF i = 0 THEN 0 ELSE number[i - 1] * TwoTo[width] + parts[i]
    IN  number

(* ipToBigInt: the parts of an address shifted into one number.             *)
Number(literal) ==
    Shifted(Parts(literal), Width(Family(literal)))[Len(Parts(literal))]

-----------------------------------------------------------------------------
(* Reading a rule.                                                          *)
(* The form a rule is stored in.                                            *)
Source(network, prefix) == [text |-> network, prefix |-> prefix, tail |-> FALSE]

(* Mutant: a prefix that is not a number is read as zero.                   *)
ParseRuleMutant(rule) ==
    LET network == Literal(rule.text) IN
    IF network = NoLiteral THEN NoRule
    ELSE IF rule.prefix = NoPrefix
    THEN [network |-> network, prefix |-> MaxBits(Family(network)),
          source |-> Source(network, NoPrefix)]
    ELSE IF rule.prefix = JunkPrefix
    THEN [network |-> network, prefix |-> 0, source |-> Source(network, JunkPrefix)]
    ELSE IF rule.prefix > MaxBits(Family(network)) THEN NoRule
    ELSE [network |-> network, prefix |-> rule.prefix,
          source |-> Source(network, rule.prefix)]

(* parseRule: what follows a second "/" is not looked at.                   *)
ParseRule(rule) ==
    LET network == Literal(rule.text) IN
    IF network = NoLiteral \/ rule.prefix = JunkPrefix THEN NoRule
    ELSE IF rule.prefix = NoPrefix
    THEN [network |-> network, prefix |-> MaxBits(Family(network)),
          source |-> Source(network, NoPrefix)]
    ELSE IF rule.prefix > MaxBits(Family(network)) THEN NoRule
    ELSE [network |-> network, prefix |-> rule.prefix,
          source |-> Source(network, rule.prefix)]

(* sanitizeAllowedIpRules: entries that cannot be read are skipped.         *)
Sanitized(entries) ==
    {ParseRule(e).source : e \in {f \in entries \ {NotText} : ParseRule(f) # NoRule}}

(* The bits of a number above the lowest ones.                              *)
Masked(number, lowest) == number - (number % TwoTo[lowest])

(* Mutant: the mask is one bit short.                                       *)
InCidrMutant(client, rule) ==
    LET family == Family(rule.network)
        shift  == MaxBits(family) - rule.prefix + 1
    IN  /\ Family(client) = family
        /\ \/ rule.prefix = 0
           \/ Masked(Number(client), shift) = Masked(Number(rule.network), shift)

(* isInCidr                                                                 *)
InCidr(client, rule) ==
    LET family == Family(rule.network)
        shift  == MaxBits(family) - rule.prefix
    IN  /\ Family(client) = family
        /\ \/ rule.prefix = 0
           \/ Masked(Number(client), shift) = Masked(Number(rule.network), shift)

(* isClientIpAllowed                                                        *)
ClientIpAllowed(client, rules) ==
    \/ rules = {}
    \/ \E rule \in rules :
          /\ ParseRule(rule) # NoRule
          /\ InCidr(client, ParseRule(rule))

-----------------------------------------------------------------------------
(* The texts of a request in the order they are tried; the header is there  *)
(* once with all its values and once with the first.                        *)
Candidates(d) ==
    d.ip \o d.ips \o d.forwarded
    \o SubSeq(d.forwarded, 1, IF d.forwarded = <<>> THEN 0 ELSE 1) \o d.remote

(* extractClientIp: the first text that holds an address.                   *)
ClientIp(d) ==
    LET texts == Candidates(d)
        holds == {i \in 1..Len(texts) : Literal(texts[i]) # NoLiteral}
        first == CHOOSE i \in holds : \A j \in holds : i <= j
    IN  IF holds = {} THEN NoLiteral ELSE Literal(texts[first])

(* What the allowlist says to a request.                                    *)
Outcome(entries, d) ==
    LET rules == Sanitized(entries) IN
    IF rules = {} THEN "allowed"
    ELSE IF ClientIp(d) = NoLiteral THEN "missing"
    ELSE IF ClientIpAllowed(ClientIp(d), rules) THEN "allowed"
    ELSE "refused"

-----------------------------------------------------------------------------
(* A write of the allowlist (create, setSecret, setAllowedIps, the route):  *)
(* normalizeAllowedIpRules throws at a rule it cannot read.                 *)
SetAllowedIps(rules) ==
    /\ \A rule \in rules : ParseRule(rule) # NoRule
    /\ stored' = {ParseRule(rule).source : rule \in rules}
    /\ intended' = rules
    /\ foreign' = FALSE

(* Mutant: a list with an entry that cannot be read is stored as empty.     *)
RewriteMutant ==
    /\ stored' = IF NotText \in stored THEN {} ELSE Sanitized(stored)
    /\ UNCHANGED <<intended, foreign>>

(* A write of something else stores the list as it was read back.           *)
Rewrite ==
    /\ stored' = Sanitized(stored)
    /\ UNCHANGED <<intended, foreign>>

(* The record is changed by other means than this library.                  *)
EditOutside(entries) ==
    /\ stored' = entries
    /\ foreign' = TRUE
    /\ UNCHANGED intended

(* Lists of at most two entries.                                            *)
Lists(entries) == {{}} \cup {{e, f} : e \in entries, f \in entries}

Init ==
    /\ stored = {}
    /\ intended = {}
    /\ foreign = FALSE

Next ==
    \/ \E rules \in Lists(RuleTexts) : SetAllowedIps(rules)
    \/ Rewrite
    \/ \E entries \in Lists(RuleTexts \cup Strays) : EditOutside(entries)

Spec == Init /\ [][Next]_vars

-----------------------------------------------------------------------------
(* What texts and rules mean, bit by bit and without the parser.            *)
Denotes(t) == t.form # "other" /\ IsAddress(t)
              /\ ~(t.form = "mapped" /\ t.port /\ ~t.bracketed)

FamilyOf(t) == IF t.form = "v6" THEN 6 ELSE 4

PartOf(t, i) ==  \* the i-th octet or group
    IF FamilyOf(t) = 4 THEN t.octets[i]
    ELSE LET tail   == t.right \o GroupsOf(t.octets)
             inTail == i - (V6Groups - Len(tail))
         IN  IF i <= Len(t.left) THEN t.left[i]
             ELSE IF inTail > 0 THEN tail[inTail] ELSE 0

BitOf(t, i) ==  \* the i-th bit from the left
    LET width == Width(FamilyOf(t))
        part  == (i - 1) \div width + 1
        place == width - 1 - ((i - 1) % width)
    IN  (PartOf(t, part) \div TwoTo[place]) % 2

Readable(rule) ==
    /\ Denotes(rule.text)
    /\ rule.prefix # JunkPrefix
    /\ rule.prefix # NoPrefix => rule.prefix <= MaxBits(FamilyOf(rule.text))

Covers(rule, t) ==
    /\ Readable(rule)
    /\ FamilyOf(rule.text) = FamilyOf(t)
    /\ \A i \in 1..(IF rule.prefix = NoPrefix THEN MaxBits(FamilyOf(t))
                    ELSE rule.prefix) : BitOf(rule.text, i) = BitOf(t, i)

(* A list the library has written holds rules that can be read.             *)
TypeOK ==
    /\ \A e \in stored \ {NotText} : IsRule(e)
    /\ ~foreign => NotText \notin stored /\ \A e \in stored : Readable(e)
    /\ intended \subseteq RuleTexts
    /\ foreign \in BOOLEAN

(* As long as only the library writes the list, a request whose req.ip is   *)
(* readable is allowed exactly if that address is covered, bit for bit, by  *)
(* a rule as the administrator wrote it, or if no rule was written: storing *)
(* and reading back loses, widens and narrows no rule, in any notation, and *)
(* a forwarded header changes nothing.                                      *)
RulesMeanWhatTheySay ==
    ~foreign => \A d \in Deliveries :
        d.ip # <<>> /\ Denotes(d.ip[1]) =>
            (Outcome(stored, d) = "allowed" <=>
                \/ intended = {}
                \/ \E rule \in intended : Covers(rule, d.ip[1]))

(* Whatever the stored list holds, an address outside of every readable     *)
(* entry gets in only if the list has no readable entry at all.             *)
StraysOpenOnlyAlone ==
    \A d \in Deliveries :
        /\ Outcome(stored, d) = "allowed"
        /\ d.ip # <<>> /\ Denotes(d.ip[1])
        /\ ~\E e \in stored \ {NotText} : Covers(e, d.ip[1])
        => \A e \in stored \ {NotText} : ~Readable(e)

(* An operation that changes another part of the record stores the list as  *)
(* it was read: that drops what cannot be read and changes no decision.     *)
RewriteChangesNoDecision ==
    [][Rewrite => \A d \in Deliveries : Outcome(stored', d) = Outcome(stored, d)]_vars
=============================================================================
