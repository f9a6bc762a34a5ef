------------------------------ MODULE Authority ------------------------------
(***************************************************************************)
(* Authority: the ledger of permissions, and the answer it gives.          *)
(*                                                                         *)
(* `permission allow` and `permission deny` append a rule.  `permission     *)
(* supersede` reads the rules, and then, in a transaction of its own,       *)
(* appends a replacement with the decision turned round and links the two.  *)
(* Several commands may run at once.  A rule is never changed or deleted.   *)
(***************************************************************************)
EXTENDS Naturals, Sequences, FiniteSets

CONSTANTS
    Ids,         \* ids of permissions
    NoId,        \* of a rule that replaces none
    Actions,     \* PermissionAction
    Resources,   \* patterns rules are written for: sequences of segments
    Paths,       \* resources that are asked about
    AnySegments, \* the segment "**" of a pattern
    OneSegment,  \* the segment "*"
    Expiries,    \* when a rule may end: times, or Never
    Never,       \* no end, or one that cannot be parsed
    Commands,    \* `permission supersede` commands that may run at once
    MaxUses,     \* bound on recorded uses
    MaxClock     \* bound on time

Decisions == {"allow", "deny"}

Rule == [id : Ids, action : Actions, resource : Resources, decision : Decisions,
         expires : Expiries, supersedes : Ids \cup {NoId}]

ASSUME IdsAssumption     == NoId \notin Ids
ASSUME ExpiryAssumption  == Never \notin Nat /\ Expiries \subseteq Nat \cup {Never}
ASSUME PatternAssumption == Resources \subseteq Seq(UNION {{p[i] : i \in DOMAIN p} : p \in Resources})
ASSUME PathAssumption    == Paths \subseteq Seq(UNION {{p[i] : i \in DOMAIN p} : p \in Paths})
ASSUME BoundAssumption   == MaxUses \in Nat /\ MaxClock \in Nat

VARIABLES
    rules,          \* permission_rules, in the order of their rows
    supersessions,  \* permission_supersessions: <<superseded, replacement>>
    uses,           \* permission_uses: the rules that were exercised
    command,        \* what each command has read: the rule and the replacement's id
    clock           \* now

vars == <<rules, supersessions, uses, command, clock>>

Idle    == [running |-> FALSE]
Taken   == {rules[i].id : i \in DOMAIN rules}
-----------------------------------------------------------------------------
(* The answer.                                                             *)

\* Mutant: "**" stands for one segment or more.
segments_matchSome(pat, path) ==
    LET match[i \in 1 .. Len(pat) + 1] ==
          IF i > Len(pat) THEN {Len(path) + 1}
          ELSE IF pat[i] = AnySegments THEN {j \in 1 .. Len(path) : \E k \in match[i + 1] : j < k}
          ELSE {j \in 1 .. Len(path) : pat[i] \in {OneSegment, path[j]} /\ j + 1 \in match[i + 1]}
    IN 1 \in match[1]

\* match[i]: where a path may begin that the pattern from its i-th segment on matches.
segments_match(pat, path) ==
    LET match[i \in 1 .. Len(pat) + 1] ==
          IF i > Len(pat) THEN {Len(path) + 1}
          ELSE IF pat[i] = AnySegments THEN {j \in 1 .. Len(path) + 1 : \E k \in match[i + 1] : j <= k}
          ELSE {j \in 1 .. Len(path) : pat[i] \in {OneSegment, path[j]} /\ j + 1 \in match[i + 1]}
    IN 1 \in match[1]

resource_matches == [pat \in Resources |-> [path \in Paths |-> segments_match(pat, path)]]

superseded_ids == {s[1] : s \in supersessions}

Expired(rule) == rule.expires # Never /\ rule.expires < clock

\* The rows that speak to an action on a path.
Applicable(action, path) ==
    {i \in DOMAIN rules : /\ rules[i].id \notin superseded_ids
                          /\ ~ Expired(rules[i])
                          /\ rules[i].action = action
                          /\ resource_matches[rules[i].resource][path]}

\* Mutant: the newest rule decides.
DecidersNewest(rows) == {i \in rows : \A j \in rows : j <= i}

\* The rows that decide: the denials, if there is one.  (The oldest of them is named
\* in the answer; when they were made is left out.)
Deciders(rows) ==
    IF \E i \in rows : rules[i].decision = "deny"
    THEN {i \in rows : rules[i].decision = "deny"} ELSE rows

evaluate(action, path) ==
    LET deciding == Deciders(Applicable(action, path))
    IN IF deciding = {} THEN "ask" ELSE rules[CHOOSE i \in deciding : TRUE].decision
-----------------------------------------------------------------------------
(* The ledger.                                                             *)

Init ==
    /\ rules = <<>>
    /\ supersessions = {}
    /\ uses = <<>>
    /\ command = [c \in Commands |-> Idle]
    /\ clock = 0

\* build_rule and append_rule: a new id, and no end when it comes from the command
\* line; other callers of the ledger may give one.
Record(id, action, resource, decision, expires) ==
    /\ id \notin Taken
    /\ rules' = Append(rules, [id |-> id, action |-> action, resource |-> resource,
                               decision |-> decision, expires |-> expires,
                               supersedes |-> NoId])
    /\ UNCHANGED <<supersessions, uses, command, clock>>

\* record_use: a row of its own, of whatever id; no rule is touched.
RecordUse(id) ==
    /\ Len(uses) < MaxUses
    /\ uses' = Append(uses, id)
    /\ UNCHANGED <<rules, supersessions, command, clock>>

\* handle_supersede reads the rule, superseded or not; the replacement's id is the
\* user's choice, and may be taken.
ReadRule(c, i, new) ==
    /\ ~ command[c].running
    /\ i \in DOMAIN rules
    /\ command' = [command EXCEPT ![c] =
                     [running |-> TRUE, existing |-> rules[i], new |-> new]]
    /\ UNCHANGED <<rules, supersessions, uses, clock>>

Flipped(decision) == IF decision = "allow" THEN "deny" ELSE "allow"

\* The replacement keeps the rule's shape.
Replacement(c) ==
    [command[c].existing EXCEPT !.id = command[c].new, !.decision = Flipped(@),
                                !.supersedes = command[c].existing.id]

\* Mutant: an insert that replaces.
InsertableAlways(id) == TRUE

\* The primary key.
Insertable(id) == id \notin Taken

\* PermissionLedger::supersede, one transaction.
Supersede(c) ==
    /\ command[c].running
    /\ Insertable(command[c].new)
    /\ rules' = Append(rules, Replacement(c))
    /\ supersessions' = supersessions \cup {<<command[c].existing.id, command[c].new>>}
    /\ command' = [command EXCEPT ![c] = Idle]
    /\ UNCHANGED <<uses, clock>>

\* The id is taken, or the command dies: the transaction leaves nothing.
GiveUp(c) ==
    /\ command[c].running
    /\ command' = [command EXCEPT ![c] = Idle]
    /\ UNCHANGED <<rules, supersessions, uses, clock>>

Tick ==
    /\ clock < MaxClock
    /\ clock' = clock + 1
    /\ UNCHANGED <<rules, supersessions, uses, command>>

Next ==
    \/ \E id \in Ids, action \in Actions, resource \in Resources, decision \in Decisions,
          expires \in Expiries : Record(id, action, resource, decision, expires)
    \/ \E id \in Ids : RecordUse(id)
    \/ \E c \in Commands : \/ \E i \in DOMAIN rules, new \in Ids : ReadRule(c, i, new)
                           \/ Supersede(c)
                           \/ GiveUp(c)
    \/ Tick

Spec == Init /\ [][Next]_vars
-----------------------------------------------------------------------------
\* Every variable has its type.
TypeOK ==
    /\ rules \in Seq(Rule)
    /\ supersessions \subseteq Ids \X Ids
    /\ uses \in Seq(Ids)
    /\ command \in [Commands -> {Idle} \cup [running : {TRUE}, existing : Rule, new : Ids]]
    /\ clock \in 0 .. MaxClock

\* The replacement that row j is of row i.
Replaces(j, i) ==
    /\ i < j
    /\ rules[j].supersedes = rules[i].id
    /\ rules[j].action = rules[i].action
    /\ rules[j].resource = rules[i].resource
    /\ rules[j].expires = rules[i].expires
    /\ rules[j].decision # rules[i].decision

\* The ledger is a history (permissions.rs:1-7): an id names one rule for ever, and
\* whatever is set aside was set aside by a later rule that says the opposite of the
\* same thing.  So no circle of rules can set each other aside and no denial go
\* without an answer, although commands read and write in separate transactions, may
\* pick ids that are taken, and may supersede a rule twice.
HistoryIsWhole ==
    /\ \A i, j \in DOMAIN rules : rules[i].id = rules[j].id => i = j
    /\ \A s \in supersessions : \E i, j \in DOMAIN rules :
         rules[i].id = s[1] /\ rules[j].id = s[2] /\ Replaces(j, i)
    /\ \A j \in DOMAIN rules :
         rules[j].supersedes # NoId => <<rules[j].supersedes, rules[j].id>> \in supersessions

Denied(action, path) == evaluate(action, path) = "deny"

\* The rule of the matcher (matcher.rs:1-6): what was denied stays denied through new
\* allowances, uses and time, until every denial that spoke to it has been superseded
\* itself or has run out.
DenialStands ==
    [][\A action \in Actions, path \in Paths :
         (Denied(action, path) /\ ~ Denied(action, path)') =>
            \A i \in Applicable(action, path) :
               rules[i].decision = "deny" =>
                  \/ rules[i].id \in superseded_ids' \ superseded_ids
                  \/ clock' > clock /\ rules[i].expires \in 0 .. clock' - 1]_vars

\* How a pattern covers a path: every segment of the path is taken by one of the
\* pattern, in order, and all but the "**" take exactly one.
Covers(pat, path) ==
    \E f \in [DOMAIN path -> DOMAIN pat] :
       /\ \A i, j \in DOMAIN path : i <= j => f[i] <= f[j]
       /\ \A i \in DOMAIN pat : pat[i] # AnySegments =>
            \E j \in DOMAIN path : /\ \A k \in DOMAIN path : f[k] = i <=> k = j
                                   /\ pat[i] \in {OneSegment, path[j]}

Covered == [pat \in Resources |-> [path \in Paths |-> Covers(pat, path)]]

\* The matcher's recursion (decision.rs:19-44) gives "**" and "*" the meaning its
\* comment does, whatever their place and number in the pattern.
MatcherIsGlob ==
    \A i \in DOMAIN rules : \A path \in Paths :
       resource_matches[rules[i].resource][path] = Covered[rules[i].resource][path]
=============================================================================
