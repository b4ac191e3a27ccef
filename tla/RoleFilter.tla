------------------------------ MODULE RoleFilter ------------------------------
(***************************************************************************)
(* The role filter of service lists. The column roles_provided holds the   *)
(* JSON text of the roles; services_with_role pastes the role it is given  *)
(* between quotes into a LIKE pattern. REST, gRPC and the command line     *)
(* each have their own idea of no filter.                                  *)
(*                                                                         *)
(* A text is a sequence of one-character strings, since wildcards and      *)
(* escapes are what can go wrong. LIKE is SQLite's: % stands for any       *)
(* text, _ for one character, ASCII letters match in both cases, and there *)
(* is no escape character. A list is one SELECT, so upserts wait until the *)
(* last list has been received.                                            *)
(***************************************************************************)
EXTENDS Naturals, SequencesExt

CONSTANTS
    Instances,      \* service instances
    Letters,        \* the characters of roles and filters
    MaxList,        \* bound on the roles of an instance
    MaxRoles,       \* bound on the characters of an instance's roles
    MaxFilter,      \* bound on the characters of a filter
    None            \* no filter; no list

Quote == "\""
Backslash == "\\"
Comma == ","

\* The wildcards of LIKE: any text; any one character.
Percent == "%"
Underscore == "_"

ASSUME BoundsAssumption ==
    MaxList \in Nat /\ MaxRoles \in Nat /\ MaxFilter \in Nat

ASSUME LettersAssumption ==
    Letters \subseteq {"a", "i", "A", "I", Comma, Percent, Underscore, Quote, Backslash}

VARIABLES
    roles,      \* history: the roles an instance was last upserted with
    column,     \* its column roles_provided
    asked,      \* the filter of the list being served, or None
    found       \* the instances listed, or None

vars == <<roles, column, asked, found>>

RoleLists ==
    {rs \in SeqOf(SeqOf(Letters, MaxRoles), MaxList) :
        Len(FlattenSeq(rs)) <= MaxRoles}

Init ==
    /\ roles = [s \in Instances |-> <<>>]
    /\ column = [s \in Instances |-> <<"[", "]">>]
    /\ asked = None
    /\ found = None

-----------------------------------------------------------------------------
(* The column *)

Escaped(c) == IF c \in {Quote, Backslash} THEN <<Backslash, c>> ELSE <<c>>

RoleText(r) ==
    <<Quote>> \o FlattenSeq([i \in DOMAIN r |-> Escaped(r[i])]) \o <<Quote>>

\* serde_json::to_string of a list of strings.
ListText(rs) ==
    <<"[">>
       \o FlattenSeq([i \in DOMAIN rs |->
              IF i = 1 THEN RoleText(rs[i]) ELSE <<Comma>> \o RoleText(rs[i])])
       \o <<"]">>

UpsertService(s, rs) ==
    /\ found = None
    /\ roles' = [roles EXCEPT ![s] = rs]
    /\ column' = [column EXCEPT ![s] = ListText(rs)]
    /\ UNCHANGED <<asked, found>>

-----------------------------------------------------------------------------
(* The filter *)

Lower(c) == CASE c = "A" -> "a" [] c = "I" -> "i" [] OTHER -> c

\* How much of the text the first i characters of the pattern can stand for,
\* given what those before the i-th can.
After(text, pattern, i, before) ==
    IF pattern[i] = Percent
    THEN {j \in 0..Len(text) : \E k \in before : k <= j}
    ELSE {j \in 1..Len(text) :
            /\ j - 1 \in before
            /\ pattern[i] = Underscore \/ Lower(pattern[i]) = Lower(text[j])}

Like(text, pattern) ==
    LET reached[i \in 0..Len(pattern)] ==
          IF i = 0 THEN {0}
          ELSE LET before == reached[i - 1] IN After(text, pattern, i, before)
    IN  Len(text) \in reached[Len(pattern)]

\* Mutants of Pattern: without the quotes; anchored at the start.
PatternUnquoted(role) == <<Percent>> \o role \o <<Percent>>

PatternAnchored(role) == <<"[", Quote>> \o role \o <<Quote, Percent>>

\* format!("%\"{role}\"%"): the role is pasted as it is.
Pattern(role) == <<Percent, Quote>> \o role \o <<Quote, Percent>>

WithRole(role) == {s \in Instances : Like(column[s], Pattern(role))}

Answer(role, list) ==
    /\ found = None
    /\ asked' = role
    /\ found' = list
    /\ UNCHANGED <<roles, column>>

\* GET /services, and `fs-inventory services`: a filter that is given is
\* used, even if it is empty.
RestListServices(role) ==
    Answer(role, IF role = None THEN Instances ELSE WithRole(role))

CliServices(role) ==
    Answer(role, IF role = None THEN Instances ELSE WithRole(role))

\* ListServices: a message has no other way to say no filter.
GrpcListServices(role) ==
    Answer(role, IF role = <<>> THEN Instances ELSE WithRole(role))

Received ==
    /\ found # None
    /\ asked' = None
    /\ found' = None
    /\ UNCHANGED <<roles, column>>

\* What clients ask for.
Filters == SeqOf(Letters, MaxFilter)

Next ==
    \/ \E s \in Instances, rs \in RoleLists : UpsertService(s, rs)
    \/ \E role \in Filters \cup {None} : RestListServices(role) \/ CliServices(role)
    \/ \E role \in Filters : GrpcListServices(role)
    \/ Received

Spec == Init /\ [][Next]_vars

-----------------------------------------------------------------------------
(* Properties *)

Has(text, chars) == \E i \in DOMAIN text : text[i] \in chars

Provides(s, role) == \E i \in DOMAIN roles[s] : roles[s][i] = role

Listing == found # None /\ asked # None

\* An instance that provides the role asked for is listed, whatever its place
\* among the roles of the instance and whatever wildcards it contains, unless
\* JSON escapes it: the column has escapes and the pattern has none
\* (repo.rs:230).
ProvidersAreFound ==
    Listing /\ ~Has(asked, {Quote, Backslash}) =>
       \A s \in Instances : Provides(s, asked) => s \in found

\* A filter of letters lists no instance but those that provide that role, in
\* upper or lower case, however the roles of others contain it, start with it
\* or join up in the column, as long as no role has a quote in it.
OnlyProvidersAreFound ==
    Listing /\ asked # <<>> /\ ~Has(asked, {Comma, Percent, Underscore, Quote, Backslash}) =>
       \A s \in found :
          \E i \in DOMAIN roles[s] :
             \/ Has(roles[s][i], {Quote})
             \/ /\ Len(roles[s][i]) = Len(asked)
                /\ \A k \in DOMAIN asked : Lower(roles[s][i][k]) = Lower(asked[k])
==============================================================================
