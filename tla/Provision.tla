----------------------------- MODULE Provision -----------------------------
(***************************************************************************)
(* Provisioning (bridge/src/brandmeister_provision.rs) over the            *)
(* BrandMeister API client (brandmeister-api/src): the peer's profile is   *)
(* logged, then its static talkgroups are made what the config declares.   *)
(*                                                                         *)
(* A run lists the statics once and works both slots off from that list,   *)
(* while the operator may edit them in SelfCare.  A request may fail with  *)
(* or without having had its effect.                                       *)
(***************************************************************************)
EXTENDS Identifiers, FiniteSets

CONSTANTS
  Talkgroups,    \* talkgroups, as the API gives them
  Assigned,      \* the statics the device may have at first, by slot
  MaxFailures,   \* requests that fail
  MaxEdits       \* edits in SelfCare

ASSUME ProvisionAssumption ==
  /\ Talkgroups \subseteq Nat /\ Assigned \subseteq [{1, 2} -> SUBSET Talkgroups]
  /\ MaxFailures \in Nat /\ MaxEdits \in Nat

VARIABLES
  statics,    \* the device's static talkgroups at BrandMeister, by slot
  run,        \* where run_once is: idle, profile, list, writes
  todo,       \* what it has yet to remove and to add, by slot
  failures, edits

provisionVars == <<statics, run, todo, failures, edits>>

Slots == {1, 2}
NoWork == [s \in Slots |-> [remove |-> {}, add |-> {}]]

-----------------------------------------------------------------------------
(* The client. *)

ServiceErrors == {"Transport", "Http", "Decode", "BodyTooLarge"}

ASSUME ErrorAssumption == None \notin ServiceErrors

\* send: what needs the token is refused here without one.
Send(auth, token, answer) ==
  CASE auth /\ token = None -> Err("Unauthenticated")
    [] auth /\ token = "unprintable" -> Err("InvalidToken")
    [] OTHER -> answer

\* GET: one entry that is no talkgroup or slot fails the whole list.
DecodeStatics(entries) ==
  IF \A e \in entries : IsOk(TryTalkgroup(e.talkgroup)) /\ IsOk(TrySlot(e.slot))
  THEN Ok(entries) ELSE Err("Decode")

Entries == {[slot |-> s, talkgroup |-> tg] : s \in Slots, tg \in Talkgroups}
Listed == {e \in Entries : e.talkgroup \in statics[e.slot]}

DeviceProfile(answer) == Send(FALSE, None, answer)
DeviceTalkgroups(answer) == Send(FALSE, None, answer)
AddStatic(token, answer) == Send(TRUE, token, answer)
RemoveStatic(token, answer) == Send(TRUE, token, answer)

\* What may come of a request: its answer, or a failure while there are any left.
Answers(body) ==
  {Ok(body)} \cup
  IF failures < MaxFailures THEN {Err(e) : e \in ServiceErrors} ELSE {}
Counted(answer) == failures' = IF IsOk(answer) THEN failures ELSE failures + 1

-----------------------------------------------------------------------------
(* run_once, for a config section and its key. *)

StartRun ==
  /\ run = "idle" /\ run' = "profile"
  /\ UNCHANGED <<statics, todo, failures, edits>>

\* A failure is logged, and the run goes on; without a key it is over.
LogProfile(token) ==
  /\ run = "profile"
  /\ \E answer \in Answers({}) : Counted(DeviceProfile(answer))
  /\ run' = IF token = None THEN "idle" ELSE "list"
  /\ UNCHANGED <<statics, todo, edits>>

\* Mutant: the entries of both slots are taken for a slot's own.
CurrentOfAnySlot(entries, s) == {e.talkgroup : e \in entries}
Current(entries, s) == {e.talkgroup : e \in {x \in entries : x.slot = s}}

\* Mutant: what is declared is removed, what is not is added.
WorkSwapped(desired, current) ==
  IF desired = None THEN [add |-> {}, remove |-> {}]
  ELSE [add |-> current \ desired, remove |-> desired \ current]

\* A slot that the config leaves out is let be.
Work(desired, current) ==
  IF desired = None THEN [add |-> {}, remove |-> {}]
  ELSE [add |-> desired \ current, remove |-> current \ desired]

ListStatics(declared) ==
  /\ run = "list"
  /\ \E answer \in Answers(Listed) :
       LET got == DeviceTalkgroups(IF IsOk(answer) THEN DecodeStatics(Listed)
                                   ELSE answer)
       IN /\ Counted(answer)
          /\ IF IsOk(got)
             THEN /\ run' = "writes"
                  /\ todo' = [s \in Slots |->
                                Work(declared[s], Current(got.val, s))]
             ELSE run' = "idle" /\ UNCHANGED todo
  /\ UNCHANGED <<statics, edits>>

\* The slot being worked off, the first with something left to do.
Busy(s) == todo[s].remove # {} \/ todo[s].add # {}
AtSlot(s) == run = "writes" /\ Busy(s) /\ \A t \in Slots : t < s => ~Busy(t)

\* A request of which the answer is an error may still have been carried out;
\* the client's own refusals were never sent.  Either way it is not repeated.
Request(token, s, tg, effect) ==
  \E answer \in Answers({}) :
    LET got == Send(TRUE, token, answer) IN
    /\ failures' = IF got = answer /\ ~IsOk(answer) THEN failures + 1 ELSE failures
    /\ \/ got = answer /\ statics' = [statics EXCEPT ![s] = effect]
       \/ ~IsOk(got) /\ UNCHANGED statics

RemoveStep(token) ==
  \E s \in Slots : AtSlot(s) /\ \E tg \in todo[s].remove :
    /\ Request(token, s, tg, statics[s] \ {tg})
    /\ todo' = [todo EXCEPT ![s].remove = @ \ {tg}]
    /\ UNCHANGED <<run, edits>>

AddStep(token) ==
  \E s \in Slots : AtSlot(s) /\ todo[s].remove = {} /\ \E tg \in todo[s].add :
    /\ Request(token, s, tg, statics[s] \cup {tg})
    /\ todo' = [todo EXCEPT ![s].add = @ \ {tg}]
    /\ UNCHANGED <<run, edits>>

EndRun ==
  /\ run = "writes" /\ \A s \in Slots : ~Busy(s)
  /\ run' = "idle"
  /\ UNCHANGED <<statics, todo, failures, edits>>

RunStep(token, declared) ==
  LogProfile(token) \/ ListStatics(declared) \/ RemoveStep(token)
    \/ AddStep(token) \/ EndRun

\* The future of a run is dropped, at whatever request it waits for.
DropRun == run' = "idle" /\ todo' = NoWork /\ UNCHANGED <<statics, failures, edits>>

\* The operator edits the statics.
Edit ==
  /\ edits < MaxEdits /\ edits' = edits + 1
  /\ \E s \in Slots, tg \in Talkgroups :
       statics' = [statics EXCEPT ![s] = IF tg \in @ THEN @ \ {tg} ELSE @ \cup {tg}]
  /\ UNCHANGED <<run, todo, failures>>

ProvisionInit ==
  /\ statics \in Assigned
  /\ run = "idle" /\ todo = NoWork /\ failures = 0 /\ edits = 0
=============================================================================
