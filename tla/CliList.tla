------------------------------ MODULE CliList ------------------------------
(***************************************************************************)
(* lst -r and dump -r (cmd_lst of src/rust/src/main.rs, and of             *)
(* src/src/xattr_stream_cli.c that it was ported from): Walk calls         *)
(* walk_visit for each visit, which lists the path's attributes and, when  *)
(* values are asked for, reads them.  The walk waits for walk_visit;       *)
(* everybody else does not.                                                *)
(*                                                                         *)
(* One attribute stands for those of a path: what happens to any of them   *)
(* happens to it.                                                          *)
(***************************************************************************)
EXTENDS Walk

CONSTANTS
  NoCall   \* walk_visit is not running

VARIABLES
  call,         \* the visit walk_visit is at work on, and how far it is
  listed,       \* paths whose attributes have been printed in full
  complaints    \* warnings: the failures of the listing

cliVars == <<call, listed, complaints>>
allVars == <<vars, cliVars>>

ASSUME CallAssumption ==
  NoCall \notin [visit : [path : Paths, kind : Kinds, depth : Nat, status : {"OK"}],
                 step : {"list", "values"}]

Complaint(path, status) == [path |-> path, status |-> status]

\* What a lookup of the path finds, through a link where links are followed.
Resolves(p) ==
  /\ At(p) # "none"
  /\ options.follow => At(p) # "dangling"

\* warn_path: said on stderr and counted.
WarnPath(path, status) ==
  complaints' = complaints \cup {Complaint(path, status)} /\ UNCHANGED listed

Skip == UNCHANGED <<listed, complaints>>
PutOut(path) == listed' = listed \cup {path} /\ UNCHANGED complaints

ExcusedAnything(visit, status) == visit.depth > 0
ExcusedNever(visit, status) == FALSE

\* What cannot be found below the root has nothing to list.
Excused(visit, status) == status = "NotFound" /\ visit.depth > 0

\* The end of walk_visit after list_one failed.
Failed(visit, status) ==
  IF Excused(visit, status) THEN Skip ELSE WarnPath(visit.path, status)

-----------------------------------------------------------------------------
\* A visit enters walk_visit; the second visit of a directory is a warning.
Callback(visit) ==
  IF Good(visit)
  THEN call' = [visit |-> visit, step |-> "list"] /\ UNCHANGED <<listed, complaints>>
  ELSE WarnPath(visit.path, visit.status) /\ UNCHANGED call

WalkOn ==
  /\ call = NoCall
  /\ Step
  /\ IF log' # log /\ options.visitor = "walk_visit"
     THEN Callback(Last(log'))
     ELSE UNCHANGED cliVars

\* list_one up to its loop over the names: xs::list.
ListOne ==
  /\ call # NoCall /\ call.step = "list"
  /\ LET path == call.visit.path
     IN \/ /\ Resolves(path) /\ options.values
           /\ call' = [call EXCEPT !.step = "values"]
           /\ UNCHANGED <<listed, complaints>>
        \/ Resolves(path) /\ PutOut(path) /\ call' = NoCall
        \/ ~Resolves(path) /\ Failed(call.visit, "NotFound") /\ call' = NoCall
        \/ (\E s \in Faults : Failed(call.visit, s)) /\ call' = NoCall
  /\ UNCHANGED vars

\* The loop of json_file and of emit_entry: xs::get of a name that was listed.
\* Its failure is a warning, whatever it is.
GetValues ==
  /\ call # NoCall /\ call.step = "values"
  /\ LET path == call.visit.path
     IN \/ Resolves(path) /\ PutOut(path)
        \/ Resolves(path) /\ WarnPath(path, "Missing")
        \/ ~Resolves(path) /\ WarnPath(path, "NotFound")
        \/ \E s \in Faults : WarnPath(path, s)
  /\ call' = NoCall
  /\ UNCHANGED vars

\* The rest of cmd_lst.
ExitOK == result = "OK" /\ complaints = {}

CliInit == Init /\ call = NoCall /\ listed = {} /\ complaints = {}

CliNext == WalkOn \/ ListOne \/ GetValues \/ (Outside /\ UNCHANGED cliVars)

CliSpec == CliInit /\ [][CliNext]_allVars

-----------------------------------------------------------------------------
(* Properties                                                              *)

\* Types of both modules; what was printed had been visited.
TypeOK ==
  /\ WalkTypeOK
  /\ call # NoCall => Good(call.visit) /\ call.visit \in ToSet(log)
  /\ listed \subseteq {log[i].path : i \in DOMAIN log}
  /\ \A c \in complaints : c.path \in Paths

Ended == pc = "done" /\ call = NoCall /\ options.visitor = "walk_visit"

\* Success means that nothing was left out: whatever stood in its place
\* during the whole walk, within the depth limit, has been printed, a link to
\* nowhere that was to be followed excepted (README.md:91-99).
ExitHonest ==
  Ended /\ ExitOK =>
    \A p \in steady :
      /\ options.limit = Unlimited \/ Len(p) <= options.limit
      /\ Resolves(p)
      => p \in listed

\* p has been there and something has happened to it since, or to what led to
\* it, or to an entry of it.
Disturbed(p) ==
  \E q \in Paths \ steady :
    /\ IsPrefix(q, p) \/ (q # Root /\ Front(q) = p)
    /\ \E kind \in Kinds : <<q, kind>> \in was

\* A complaint that something below the root cannot be found is only made
\* where something did disappear: the path itself; of a directory whose listing
\* tells no kinds, an entry of it; or, when a link to elsewhere took its place,
\* a directory on the way.
BlameTrue ==
  \A c \in complaints : c.status = "NotFound" /\ c.path # Root => Disturbed(c.path)
=============================================================================
