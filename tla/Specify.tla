-------------------------------- MODULE Specify --------------------------------
(***************************************************************************)
(* How a feature begins (scripts/speckit_specify_step.py, with the script  *)
(* it runs, .specify/scripts/python/create_new_feature.py): a request gets *)
(* the next number, a directory named by number and suffix, and a spec.md  *)
(* that is the template with the request's description put in.  The number *)
(* is read off the directories and the branches there are; nothing marks   *)
(* it as taken before the directory is made.                               *)
(***************************************************************************)
EXTENDS Integers, FiniteSets

CONSTANTS
    Requester,     \* requests for a feature, each with its own description
    Suffix,        \* what the descriptions and short names come down to
    NoRequester,
    MaxNumber,     \* bound on the numbers given out
    ThreeDigits,   \* the largest number a branch name is read for: 999
    MaxSwitches    \* bound on the branches made, and on the checkouts

ASSUME SpecifyAssumption ==
    /\ NoRequester \notin Requester
    /\ MaxNumber \in Nat /\ ThreeDigits \in Nat /\ MaxSwitches \in Nat

VARIABLES
    spec,          \* spec[n, x]: the directory of number n and suffix x, and its spec.md
    branches,      \* the numbers at the head of branch names, remote ones included
    onMain,        \* whether main is checked out
    request,       \* request[r]: where r is, what it was told, what it saw
    crossed,       \* pairs of requests of which one was numbered before the other's directory was there
    switches

specifyVars == <<spec, branches, onMain, request, crossed, switches>>

Number == 0 .. MaxNumber
NoDir == [there |-> FALSE, by |-> NoRequester, text |-> "none"]
NoRequest == [pc |-> "idle", suffix |-> "", number |-> 0, given |-> FALSE,
              made |-> FALSE, saw |-> NoDir]
Goes(r, pc) == request' = [request EXCEPT ![r].pc = pc]

SpecifyInit ==
    /\ spec = [d \in Number \X Suffix |-> NoDir]
    /\ branches = {} /\ onMain = TRUE /\ switches = 0 /\ crossed = {}
    /\ request = [r \in Requester |-> NoRequest]

Dirs == {d \in Number \X Suffix : spec[d].there}
DirOf(r) == <<request[r].number, request[r].suffix>>

\* Mutant: only branches are looked at.
Taken_OnBranches == branches \cap (0 .. ThreeDigits)

\* _get_highest_from_branches and _get_highest_from_specs, before the maximum.
Taken == (branches \cap (0 .. ThreeDigits)) \cup {d[1] : d \in Dirs}

\* main, up to the number: with --number there is nothing to read.
Asks(r, x, n) ==
    /\ request[r].pc = "idle"
    /\ request' = [request EXCEPT ![r] = [NoRequest EXCEPT
                     !.pc = "check", !.suffix = x, !.number = n, !.given = TRUE]]
    /\ UNCHANGED <<spec, branches, onMain, crossed, switches>>

\* Requests that have a number and no directory yet.
Pending == {q \in Requester : request[q].pc \in {"check", "mkdir"}}

\* _check_existing_branches: one above the highest there is.
IsNumbered(r, x) ==
    /\ request[r].pc = "idle"
    /\ \E n \in Number :
         /\ n > 0 /\ \A m \in Taken : m < n
         /\ n = 1 \/ n - 1 \in Taken
         /\ request' = [request EXCEPT ![r] = [NoRequest EXCEPT
                          !.pc = "check", !.suffix = x, !.number = n]]
    /\ crossed' = crossed \cup {{r, q} : q \in Pending}
    /\ UNCHANGED <<spec, branches, onMain, switches>>

\* _ensure_main_branch_ready
ChecksMain(r) ==
    /\ request[r].pc = "check"
    /\ Goes(r, IF onMain THEN "mkdir" ELSE "refused")
    /\ UNCHANGED <<spec, branches, onMain, crossed, switches>>

\* The directory may be there already.
MakesDir(r) ==
    /\ request[r].pc = "mkdir"
    /\ request' = [request EXCEPT ![r].pc = "copy", ![r].made = TRUE]
    /\ spec' = [spec EXCEPT ![DirOf(r)].there = TRUE]
    /\ UNCHANGED <<branches, onMain, crossed, switches>>

\* The template is copied over whatever spec.md holds.
CopiesTemplate(r) ==
    /\ request[r].pc = "copy"
    /\ spec' = [spec EXCEPT ![DirOf(r)] = [there |-> TRUE, by |-> r, text |-> "template"]]
    /\ Goes(r, "read")
    /\ UNCHANGED <<branches, onMain, crossed, switches>>

\* _persist_bootstrap_description: what is read ...
ReadsSpec(r) ==
    /\ request[r].pc = "read"
    /\ request' = [request EXCEPT ![r].pc = "describe", ![r].saw = spec[DirOf(r)]]
    /\ UNCHANGED <<spec, branches, onMain, crossed, switches>>

\* ... is written back with the description, if it had a place for one.
Describes(r) ==
    /\ request[r].pc = "describe"
    /\ spec' = IF request[r].saw.text = "template"
               THEN [spec EXCEPT ![DirOf(r)] = [there |-> TRUE, by |-> r, text |-> "described"]]
               ELSE spec
    /\ Goes(r, "done")
    /\ UNCHANGED <<branches, onMain, crossed, switches>>

\* External: the agent that was told of the scaffold writes the specification.
FillsSpec(r) ==
    /\ request[r].pc = "done"
    /\ spec' = [spec EXCEPT ![DirOf(r)] = [there |-> TRUE, by |-> r, text |-> "filled"]]
    /\ Goes(r, "filled")
    /\ UNCHANGED <<branches, onMain, crossed, switches>>

\* A request is killed, with its script.
IsKilled(r) ==
    /\ request[r].pc \in {"check", "mkdir", "copy", "read", "describe"}
    /\ Goes(r, "killed")
    /\ UNCHANGED <<spec, branches, onMain, crossed, switches>>

Switch == switches < MaxSwitches /\ switches' = switches + 1

\* Somebody makes a branch for a number, here or on a remote, or checks one out.
MakesBranch ==
    /\ Switch
    /\ \E n \in Number : branches' = branches \cup {n}
    /\ UNCHANGED <<spec, onMain, request, crossed>>

ChecksOut ==
    /\ Switch /\ onMain' = ~onMain
    /\ UNCHANGED <<spec, branches, request, crossed>>

SpecifyNext ==
    \/ \E r \in Requester :
         \/ \E x \in Suffix : IsNumbered(r, x) \/ \E n \in Number : Asks(r, x, n)
         \/ ChecksMain(r) \/ MakesDir(r) \/ CopiesTemplate(r) \/ ReadsSpec(r)
         \/ Describes(r) \/ FillsSpec(r) \/ IsKilled(r)
    \/ MakesBranch \/ ChecksOut

SpecifySpec == SpecifyInit /\ [][SpecifyNext]_specifyVars
-------------------------------------------------------------------------------
\* Neither was given its number, and they were not numbered at once.
Apart(r, q) == ~request[r].given /\ ~request[q].given /\ {r, q} \notin crossed

NumbersAreOwn ==
    \A r, q \in Requester :
        r # q /\ Apart(r, q) /\ request[r].made /\ request[q].made
            => request[r].number # request[q].number

SpecsAreKept ==
    \A r \in Requester :
        /\ request[r].pc \in {"done", "filled"}
        /\ \A q \in Requester \ {r} : Apart(r, q)
        => spec[DirOf(r)] = [there |-> TRUE, by |-> r,
               text |-> IF request[r].pc = "filled" THEN "filled" ELSE "described"]

\* Two requests that were numbered one after the other have features of different
\* numbers, whatever was killed in between and whatever branches there are; so a
\* finished specification stays what its own request made of it.
FeaturesAreOwn == NumbersAreOwn /\ SpecsAreKept

\* find_feature_dir_by_prefix: "Please ensure only one spec directory exists per
\* numeric prefix."
OnePerPrefix == \A d, e \in Dirs : d[1] = e[1] => d = e
===============================================================================
