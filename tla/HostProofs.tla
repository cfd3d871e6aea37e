----------------------------- MODULE HostProofs -----------------------------
(***************************************************************************)
(* That the process stays up until it is told to stop, that no request of  *)
(* the reconciliation takes the statics further from what is declared, and *)
(* that what runs was checked to have what it takes for granted: for every *)
(* set of launches, talkgroups, failures and edits.                        *)
(***************************************************************************)
EXTENDS Host, FiniteSetTheorems, TLAPS

-----------------------------------------------------------------------------
(* What goes wrong before the join! is never reported as a good end.         *)

LEMMA NoneIsNeither == None \notin {"ok", "unreachable"}
  BY OkAssumption, NoneAssumption DEF Errors

\* An error of a secret file is an error (read_secret_file).
LEMMA FileErrors == ASSUME NEW c PROVE ReadOptional(c).err \notin {"ok", "unreachable"}
  BY NoneIsNeither DEF ReadOptional, ReadSecretFile, Ok, Err

\* So is one of Config::load.
LEMMA LoadErrors == ASSUME NEW d PROVE LoadConfig(d).err \notin {"ok", "unreachable"}
  <1>1. Validate(d).err \notin {"ok", "unreachable"}
    BY NoneIsNeither DEF Validate, Ok, Err
  <1> QED BY <1>1 DEF LoadConfig, Err

\* One of resolve_password.
LEMMA PasswordErrors == PasswordFound.err \notin {"ok", "unreachable"}
  BY NoneIsNeither DEF PasswordFound, ResolvePassword, Ok, Err

LEMMA SourcesFinite == IsFiniteSet({"cli", "env", "config", "file"})
  <1>1. IsFiniteSet({})
    BY FS_EmptySet
  <1>2. IsFiniteSet({} \cup {"cli"})
    BY <1>1, FS_AddElement
  <1>3. IsFiniteSet(({} \cup {"cli"}) \cup {"env"})
    BY <1>2, FS_AddElement
  <1>4. IsFiniteSet((({} \cup {"cli"}) \cup {"env"}) \cup {"config"})
    BY <1>3, FS_AddElement
  <1>5. IsFiniteSet(((({} \cup {"cli"}) \cup {"env"}) \cup {"config"}) \cup {"file"})
    BY <1>4, FS_AddElement
  <1>6. {"cli", "env", "config", "file"} =
          ((({} \cup {"cli"}) \cup {"env"}) \cup {"config"}) \cup {"file"}
    OBVIOUS
  <1> QED BY <1>5, <1>6

\* One of resolve_api_key, whose sources are counted.
LEMMA ApiKeyErrors == ApiKeyFound.err \notin {"ok", "unreachable"}
  <1> DEFINE sources == [cli |-> FromCli(launch.cli.api_key),
                         env |-> launch.env.api_key,
                         config |-> doc.brandmeister_api.api_key]
             content == IF doc.brandmeister_api.api_key_file
                        THEN launch.file.api_key ELSE None
             all == [s \in DOMAIN sources \cup {"file"} |->
                       IF s = "file" THEN ReadOptional(content).val ELSE sources[s]]
             found == Candidates(all)
  <1>1. IsFiniteSet(found) /\ Cardinality(found) \in Nat
                           /\ (Cardinality(found) = 0 <=> found = {})
    <2>1. DOMAIN all = {"cli", "env", "config", "file"}
      OBVIOUS
    <2>2. IsFiniteSet({"cli", "env", "config", "file"})
      BY SourcesFinite
    <2>3. found \subseteq DOMAIN all
      BY DEF Candidates
    <2>4. IsFiniteSet(found)
      BY <2>1, <2>2, <2>3, FS_Subset
    <2> QED BY <2>4, FS_CardinalityType, FS_EmptySet
  <1>2. Cardinality(found) > 1 \/ Cardinality(found) = 1 \/ found = {}
    <2> HIDE DEF found
    <2>1. \A n \in Nat : n > 1 \/ n = 1 \/ n = 0
      OBVIOUS
    <2> QED BY <1>1, <2>1
  <1>3. CASE ~HasApi
    BY <1>3, NoneIsNeither DEF ApiKeyFound, Ok
  <1>4. CASE HasApi
    <2>1. ApiKeyFound =
            ResolveApiKey(doc.brandmeister_api, sources, content)
      BY <1>4 DEF ApiKeyFound
    <2>2. CASE ~IsOk(ReadOptional(content))
      BY <1>4, <2>1, <2>2 DEF ResolveApiKey, HasApi, Err
    <2>3. CASE IsOk(ReadOptional(content))
      BY <1>2, <1>4, <2>1, <2>3, NoneIsNeither DEF ResolveApiKey, HasApi, Ok, Err
    <2> QED BY <2>2, <2>3
  <1> QED BY <1>3, <1>4

\* One of make_vocoder, for a section the schema takes.
LEMMA VocoderErrors ==
  ASSUME NEW section \in VocoderSections, NEW up
  PROVE  MakeVocoder(section, up).err \notin {"ok", "unreachable"}
  <1>1. \A half \in Halves \ {"neural"} : OpenPlain(half, section, up).err \notin {"ok", "unreachable"}
    BY NoneIsNeither DEF OpenPlain, Open, Halves, Ok, Err
  <1>2. \A d : OpenNeuralDecoder(d, up).err \notin {"ok", "unreachable"}
    BY NoneIsNeither DEF OpenNeuralDecoder, Ok, Err
  <1>3. CASE section.backend # "neural"
    BY <1>1, <1>3 DEF MakeVocoder, VocoderSections, Backends, Halves
  <1>4. CASE section.backend = "neural" /\ section.neural = None
    BY <1>4 DEF MakeVocoder, Err
  <1>5. CASE section.backend = "neural" /\ section.neural # None
    <2>1. /\ section.neural.encoder_backend \in Halves
          /\ section.neural.decoder_backend \in Halves
      BY <1>5 DEF VocoderSections, NeuralSections
    <2>2. OpenNeural(section, up).err \notin {"ok", "unreachable"}
      BY <1>1, <1>2, <2>1, NoneIsNeither DEF OpenNeural, Ok, Err
    <2> QED BY <1>5, <2>2 DEF MakeVocoder, Err
  <1> QED BY <1>3, <1>4, <1>5

-----------------------------------------------------------------------------
(* StaysUp. *)

\* Branches with nothing to do wait for the cancel like the others: while there
\* is none, a running process has one of those that only a cancel ends.
Up ==
  /\ launch \in Launches
  /\ cancel \in BOOLEAN
  /\ StaysUp
  /\ stage = "running" /\ ~cancel => "usrp" \in alive

LEMMA UpInit == Init => Up
  BY OkAssumption DEF Init, Up, StaysUp, Causes

LEMMA UpNext == Up /\ [Next]_vars => Up'
  <1> SUFFICES ASSUME Up, [Next]_vars PROVE Up'
    OBVIOUS
  <1> USE DEF Up, StaysUp, Causes
  <1>1. CASE ReadArgs
    BY <1>1, FileErrors DEF ReadArgs, Then, Exit
  <1>2. CASE Load
    BY <1>2, LoadErrors DEF Load, Then, Exit
  <1>3. CASE Resolve
    <2>1. \A r : r = (IF IsOk(PasswordFound) THEN ApiKeyFound ELSE PasswordFound)
                   => r.err \notin {"ok", "unreachable"}
      BY PasswordErrors, ApiKeyErrors
    <2>2. /\ UNCHANGED <<launch, cancel, cause>>
          /\ stage' # "running"
          /\ exit' = exit \/ exit' # "ok"
      BY <1>3, <2>1 DEF Resolve, Then, Exit
    <2> QED BY <2>2
  <1>4. CASE Abandon
    BY <1>4 DEF Abandon, Exit
  <1>5. CASE Provisioned
    BY <1>5 DEF Provisioned
  <1>6. CASE LoadSubscribers
    BY <1>6 DEF LoadSubscribers
  <1>7. CASE Bind
    BY <1>7 DEF Bind, Then, Exit, IsOk, Err, Ok
  <1>8. CASE OpenVocoder
    <2>1. doc.vocoder \in VocoderSections
      BY LaunchesAssumption DEF doc, Documents
    <2>2. \A v, r : SetGain(v, r).err # "ok"
      BY OkAssumption DEF SetGain, Ok, Err
    <2>3. /\ UNCHANGED <<launch, cancel, cause>>
          /\ \/ stage' = "running" /\ alive' = Branches /\ exit' = exit
             \/ stage' = "exited" /\ exit' # "ok"
      BY <1>8, <2>1, <2>2, VocoderErrors DEF OpenVocoder, Exit
    <2>4. "usrp" \in Branches
      BY DEF Branches
    <2> QED BY <2>3, <2>4
  <1>9. CASE Joined
    BY <1>9 DEF Joined, Exit
  <1>10. ASSUME NEW b \in Branches, End(b) PROVE Up'
    <2>1. /\ UNCHANGED <<launch, stage, exit, cause>>
          /\ alive' = alive \ {b}
          /\ cancel' = (cancel \/ b \notin {"stats", "heartbeat", "summary"})
      BY <1>10 DEF End
    <2>2. b \notin {"stats", "heartbeat", "summary"} => cancel
      BY <1>10 DEF End, MayEnd
    <2>3. cancel' = cancel
      BY <2>1, <2>2, Zenon
    <2> QED BY <2>1, <2>2, <2>3
  <1>11. CASE Provisioning \/ Refreshing \/ EditStatics \/ UpdateFile
    BY <1>11 DEF Provisioning, Refreshing, Reconcile, ProvisionStep, Refresh,
                 Reloaded, EditStatics, UpdateFile, mainVars
  <1>12. CASE Signal \/ VocoderFails
    <2>1. cancel' = TRUE /\ cause' \in Causes
      BY <1>12 DEF Signal, VocoderFails
    <2>2. cancel' \in BOOLEAN /\ cancel'
      BY <2>1, Zenon
    <2>3. launch' = launch
      BY <1>12 DEF Signal, VocoderFails
    <2> QED BY <2>1, <2>2, <2>3, Zenon
  <1>13. CASE UNCHANGED vars
    BY <1>13 DEF vars, mainVars
  <1> QED
    BY <1>1, <1>2, <1>3, <1>4, <1>5, <1>6, <1>7, <1>8, <1>9, <1>10, <1>11, <1>12,
       <1>13 DEF Next, MainTask

\* Only a signal or a failed vocoder brings the process down, and only after one
\* of them does it report a good end: no branch that has nothing to do, no provisioning or reload that
\* is over, and no error before the join! is taken for one (main.rs:558).
THEOREM EndsForCause == Spec => []StaysUp
  <1>1. Up => StaysUp
    BY DEF Up
  <1> QED BY UpInit, UpNext, <1>1, PTL DEF Spec

-----------------------------------------------------------------------------
(* NeverWorse. *)

\* What a slot should be made: none of it where the config leaves the slot out.
Steers(work, s) ==
  IF ~HasApi \/ Declared[s] = None THEN work.remove = {} /\ work.add = {}
  ELSE work.remove \cap Declared[s] = {} /\ work.add \subseteq Declared[s]

\* Whatever list the work was decided from, it only ever removes what is not
\* declared and adds what is.
Steered ==
  /\ launch \in Launches
  /\ statics \in [Slots -> SUBSET Nat]
  /\ edits \in Nat
  /\ todo \in [Slots -> [remove : SUBSET Nat, add : SUBSET Nat]]
  /\ \A s \in Slots : Steers(todo[s], s)
  /\ ~HasApi => run = "idle"

\* Everything but the steps of a run, and an edit, leaves the work and the
\* statics alone, or drops the work.
LEMMA Elsewhere ==
  ASSUME [Next]_vars
  PROVE  /\ UNCHANGED launch
         /\ \/ ProvisionStep
            \/ EditStatics
            \/ /\ UNCHANGED <<statics, edits>>
               /\ \/ UNCHANGED todo
                  \/ todo' = NoWork
               /\ run' = run \/ run' = "idle" \/ HasApi
  <1>1. CASE MainTask
    BY <1>1 DEF MainTask, ReadArgs, Load, Resolve, Abandon, Provisioned,
         LoadSubscribers, Bind, OpenVocoder, Joined, End, StartRun, DropRun,
         provisionVars
  <1>2. CASE Provisioning
    BY <1>2 DEF Provisioning, Reconcile, Reconciles, ProvisionStep, StartRun, mainVars
  <1>3. CASE \/ Refreshing \/ Signal \/ VocoderFails \/ EditStatics \/ UpdateFile
             \/ UNCHANGED vars
    BY <1>3 DEF Refreshing, Refresh, Reloaded, Signal, VocoderFails, EditStatics,
         UpdateFile, vars, mainVars, provisionVars
  <1> QED BY <1>1, <1>2, <1>3 DEF Next

\* The work of reconcile_slot, whatever the slot is found to have.
LEMMA WorkSteers ==
  ASSUME launch \in Launches, HasApi, NEW s \in Slots, NEW current \in SUBSET Nat
  PROVE  /\ Work(Declared[s], current) \in [remove : SUBSET Nat, add : SUBSET Nat]
         /\ Steers(Work(Declared[s], current), s)
  <1>1. Declared \in [{1, 2} -> (SUBSET Nat) \cup {None}]
    BY LaunchesAssumption DEF Declared, HasApi, doc, Documents, ApiSections
  <1>2. Declared[s] = None \/ Declared[s] \in SUBSET Nat
    BY <1>1 DEF Slots
  <1> QED BY <1>2 DEF Work, Steers

\* Changing one slot leaves the other.
LEMMA SlotChanged ==
  ASSUME NEW f \in [Slots -> SUBSET Nat], NEW s \in Slots, NEW v \in SUBSET Nat,
         NEW g, g = [f EXCEPT ![s] = v]
  PROVE  g \in [Slots -> SUBSET Nat] /\ \A t \in Slots : g[t] = IF t = s THEN v ELSE f[t]
  OBVIOUS

\* A step of a run keeps its work steered, and moves one slot by one talkgroup
\* of that work or not at all.
LEMMA RunSteers ==
  ASSUME Steered, RunStep(token, Declared), UNCHANGED launch
  PROVE  /\ statics' \in [Slots -> SUBSET Nat]
         /\ edits' = edits
         /\ todo' \in [Slots -> [remove : SUBSET Nat, add : SUBSET Nat]]
         /\ \A s \in Slots : Steers(todo'[s], s)
         /\ HasApi
         /\ \A s \in Slots :
              \/ statics'[s] = statics[s]
              \/ \E tg \in todo[s].remove : statics'[s] = statics[s] \ {tg}
              \/ \E tg \in todo[s].add : statics'[s] = statics[s] \cup {tg}
  <1>1. HasApi
    BY DEF RunStep, Steered, LogProfile, ListStatics, RemoveStep, AddStep, EndRun,
           AtSlot
  <1> USE DEF Steered
  <1>0. edits' = edits
    BY DEF RunStep, LogProfile, ListStatics, RemoveStep, AddStep, EndRun
  <1>2. CASE LogProfile(token) \/ EndRun
    BY <1>0, <1>1, <1>2 DEF LogProfile, EndRun, Steers
  <1>3. CASE ListStatics(Declared)
    <2>1. statics' = statics
      BY <1>3 DEF ListStatics
    <2>2. CASE todo' = todo
      BY <1>0, <1>1, <2>1, <2>2 DEF Steers
    <2>3. CASE todo' # todo
      <3> DEFINE got(a) ==
            DeviceTalkgroups(IF IsOk(a) THEN DecodeStatics(Listed) ELSE a)
      <3>1. PICK answer \in Answers(Listed) :
              /\ IsOk(got(answer))
              /\ todo' = [s \in Slots |->
                            Work(Declared[s], Current(got(answer).val, s))]
        BY <1>3, <2>3 DEF ListStatics
      <3>2. got(answer).val = Listed
        <4>1. got(answer) = IF IsOk(answer) THEN DecodeStatics(Listed) ELSE answer
          BY DEF DeviceTalkgroups, Send
        <4> HIDE DEF got
        <4>2. CASE IsOk(answer)
          <5>1. got(answer) = DecodeStatics(Listed)
            BY <4>1, <4>2
          <5>2. IsOk(DecodeStatics(Listed))
            BY <3>1, <5>1
          <5> QED BY <5>1, <5>2, ErrorAssumption DEF ServiceErrors, DecodeStatics, IsOk, Ok, Err
        <4>3. CASE ~IsOk(answer)
          BY <3>1, <4>1, <4>3
        <4> QED BY <4>2, <4>3
      <3>3. ASSUME NEW s \in Slots PROVE Current(Listed, s) \in SUBSET Nat
        BY ProvisionAssumption DEF Current, Listed, Entries
      <3>4. \A s \in Slots :
              /\ todo'[s] = Work(Declared[s], Current(Listed, s))
              /\ todo'[s] \in [remove : SUBSET Nat, add : SUBSET Nat]
              /\ Steers(todo'[s], s)
        BY <1>1, <3>1, <3>2, <3>3, WorkSteers
      <3>5. todo' \in [Slots -> [remove : SUBSET Nat, add : SUBSET Nat]]
        BY <3>1, <3>4
      <3> QED BY <1>0, <1>1, <2>1, <3>4, <3>5
    <2> QED BY <2>2, <2>3
  <1>4. CASE RemoveStep(token)
    <2>0. PICK s \in Slots : \E tg \in todo[s].remove :
            /\ Request(token, s, tg, statics[s] \ {tg})
            /\ todo' = [todo EXCEPT ![s].remove = @ \ {tg}]
      BY <1>4 DEF RemoveStep
    <2>1. PICK tg \in todo[s].remove :
            /\ Request(token, s, tg, statics[s] \ {tg})
            /\ todo' = [todo EXCEPT ![s].remove = @ \ {tg}]
      BY <2>0
    <2>2. \/ statics' = statics
          \/ statics' = [statics EXCEPT ![s] = statics[s] \ {tg}]
      BY <2>1 DEF Request
    <2>3. todo' \in [Slots -> [remove : SUBSET Nat, add : SUBSET Nat]]
      BY <2>1
    <2>4. \A t \in Slots : /\ todo'[t].remove \subseteq todo[t].remove
                           /\ todo'[t].add = todo[t].add
      BY <2>1
    <2>5. \A t \in Slots : Steers(todo'[t], t)
      BY <2>4 DEF Steers
    <2>6. /\ statics' \in [Slots -> SUBSET Nat]
          /\ \A t \in Slots :
                \/ statics'[t] = statics[t]
                \/ t = s /\ statics'[t] = statics[t] \ {tg}
      <3>1. tg \in Nat /\ statics[s] \in SUBSET Nat
        BY <2>1
      <3>2. statics[s] \ {tg} \in SUBSET Nat
        BY <3>1
      <3>3. CASE statics' = statics
        BY <3>3
      <3>4. CASE statics' = [statics EXCEPT ![s] = statics[s] \ {tg}]
        BY <3>2, <3>4, SlotChanged
      <3> QED BY <2>2, <3>3, <3>4
    <2> QED BY <1>0, <1>1, <2>1, <2>3, <2>5, <2>6
  <1>5. CASE AddStep(token)
    <2>0. PICK s \in Slots : \E tg \in todo[s].add :
            /\ Request(token, s, tg, statics[s] \cup {tg})
            /\ todo' = [todo EXCEPT ![s].add = @ \ {tg}]
      BY <1>5 DEF AddStep
    <2>1. PICK tg \in todo[s].add :
            /\ Request(token, s, tg, statics[s] \cup {tg})
            /\ todo' = [todo EXCEPT ![s].add = @ \ {tg}]
      BY <2>0
    <2>2. \/ statics' = statics
          \/ statics' = [statics EXCEPT ![s] = statics[s] \cup {tg}]
      BY <2>1 DEF Request
    <2>3. todo' \in [Slots -> [remove : SUBSET Nat, add : SUBSET Nat]]
      BY <2>1
    <2>4. \A t \in Slots : /\ todo'[t].add \subseteq todo[t].add
                           /\ todo'[t].remove = todo[t].remove
      BY <2>1
    <2>5. \A t \in Slots : Steers(todo'[t], t)
      BY <2>4 DEF Steers
    <2>6. /\ statics' \in [Slots -> SUBSET Nat]
          /\ \A t \in Slots :
                \/ statics'[t] = statics[t]
                \/ t = s /\ statics'[t] = statics[t] \cup {tg}
      <3>1. tg \in Nat /\ statics[s] \in SUBSET Nat
        BY <2>1
      <3>2. statics[s] \cup {tg} \in SUBSET Nat
        BY <3>1
      <3>3. CASE statics' = statics
        BY <3>3
      <3>4. CASE statics' = [statics EXCEPT ![s] = statics[s] \cup {tg}]
        BY <3>2, <3>4, SlotChanged
      <3> QED BY <2>2, <3>3, <3>4
    <2> QED BY <1>0, <1>1, <2>1, <2>3, <2>5, <2>6
  <1> QED BY <1>2, <1>3, <1>4, <1>5 DEF RunStep

LEMMA SteeredInit == Init => Steered
  <1> SUFFICES ASSUME Init PROVE Steered
    OBVIOUS
  <1>1. statics \in [Slots -> SUBSET Nat]
    BY ProvisionAssumption DEF Init, ProvisionInit, Slots
  <1>2. /\ todo \in [Slots -> [remove : SUBSET Nat, add : SUBSET Nat]]
        /\ \A s \in Slots : Steers(todo[s], s)
    BY DEF Init, ProvisionInit, NoWork, Steers
  <1> QED BY <1>1, <1>2 DEF Init, ProvisionInit, Steered

LEMMA SteeredNext == Steered /\ [Next]_vars => Steered'
  <1> SUFFICES ASSUME Steered, [Next]_vars PROVE Steered'
    OBVIOUS
  <1>1. launch' = launch /\ (HasApi' <=> HasApi) /\ Declared' = Declared
    BY Elsewhere DEF HasApi, Declared, doc
  <1>3. CASE ProvisionStep
    BY <1>1, <1>3, RunSteers DEF ProvisionStep, Steered, Steers
  <1>4. CASE EditStatics
    <2>1. UNCHANGED <<todo, run>> /\ edits' \in Nat
      BY <1>4 DEF EditStatics, Edit, Steered
    <2>2. statics' \in [Slots -> SUBSET Nat]
      <3>1. PICK s \in Slots, tg \in Talkgroups :
              statics' = [statics EXCEPT
                            ![s] = IF tg \in @ THEN @ \ {tg} ELSE @ \cup {tg}]
        BY <1>4 DEF EditStatics, Edit
      <3>2. tg \in Nat /\ statics[s] \in SUBSET Nat
        BY ProvisionAssumption DEF Steered
      <3>3. /\ statics[s] \ {tg} \in SUBSET Nat
            /\ statics[s] \cup {tg} \in SUBSET Nat
        BY <3>2
      <3>4. \/ statics' = [statics EXCEPT ![s] = statics[s] \ {tg}]
            \/ statics' = [statics EXCEPT ![s] = statics[s] \cup {tg}]
        BY <3>1
      <3> QED BY <3>3, <3>4, SlotChanged DEF Steered
    <2> QED BY <1>1, <2>1, <2>2 DEF Steered, Steers
  <1>5. CASE /\ UNCHANGED <<statics, edits>>
             /\ \/ UNCHANGED todo
                \/ todo' = NoWork
             /\ run' = run \/ run' = "idle" \/ HasApi
    <2>1. /\ todo' \in [Slots -> [remove : SUBSET Nat, add : SUBSET Nat]]
          /\ \A s \in Slots : Steers(todo'[s], s)
      BY <1>5 DEF Steered, Steers, NoWork
    <2> QED BY <1>1, <1>5, <2>1 DEF Steered, Steers
  <1> QED BY <1>3, <1>4, <1>5, Elsewhere

LEMMA NoStepAstray ==
  ASSUME Steered, [Next]_vars, edits' = edits, NEW s \in Slots
  PROVE  IF ~HasApi \/ Declared[s] = None THEN statics'[s] = statics[s]
         ELSE Astray(s, statics'[s]) \subseteq Astray(s, statics[s])
  <1>1. CASE ProvisionStep
    <2>1. Steers(todo[s], s)
      BY DEF Steered
    <2>2. \/ statics'[s] = statics[s]
          \/ \E tg \in todo[s].remove : statics'[s] = statics[s] \ {tg}
          \/ \E tg \in todo[s].add : statics'[s] = statics[s] \cup {tg}
      BY <1>1, Elsewhere, RunSteers DEF ProvisionStep
    <2> QED BY <2>1, <2>2 DEF Steers, Astray
  <1>2. CASE EditStatics
    <2>1. edits \in Nat /\ edits' = edits + 1
      BY <1>2 DEF EditStatics, Edit, Steered
    <2> QED BY <2>1
  <1>3. CASE UNCHANGED statics
    BY <1>3 DEF Astray
  <1> QED BY <1>1, <1>2, <1>3, Elsewhere

\* Whatever statics the device starts with, however many requests fail, with or
\* without their effect, and whatever is edited meanwhile, no request takes a
\* slot further from what the config declares for it, and a slot it leaves out
\* is never touched (reconcile_slot).
THEOREM RequestsNeverStray == Spec => NeverWorse
  <1>1. Steered /\ [Next]_vars =>
          [edits' = edits =>
             \A s \in Slots :
               IF ~HasApi \/ Declared[s] = None THEN statics'[s] = statics[s]
               ELSE Astray(s, statics'[s]) \subseteq Astray(s, statics[s])]_vars
    BY NoStepAstray
  <1> QED BY SteeredInit, SteeredNext, <1>1, PTL DEF Spec, NeverWorse

-----------------------------------------------------------------------------
(* StartsSound: what has been checked on the way to a stage still holds      *)
(* there, since the launch does not change and nothing is resolved twice.    *)

\* The vocoder is of the section, with the gains of its directions.
Fitted(v) ==
  /\ v.encode # None /\ v.decode # None
  /\ v.inGain = "in" /\ v.outGain = "out"
  /\ doc.vocoder.backend # "neural" => {v.encode, v.decode} = {doc.vocoder.backend}
  /\ doc.vocoder.backend = "neural" /\ doc.vocoder.neural.encoder_backend # "neural"
       => v.encode = doc.vocoder.neural.encoder_backend

Checked ==
  /\ launch \in Launches
  /\ exit # "unreachable"
  /\ stage \notin {"args", "load", "exited"} => IsOk(LoadConfig(doc))
  /\ stage \notin {"args", "load", "resolve", "exited"} =>
       /\ IsOk(PasswordFound) /\ password = PasswordFound.val
       /\ IsOk(ApiKeyFound) /\ token = ApiKeyFound.val
  /\ stage = "running" => Fitted(vocoder)

\* Numbers of up to three digits, as Rust prints them.
LEMMA DigitsOf ==
  ASSUME NEW n \in Nat
  PROVE  /\ n < 100 => Digits(n) \in {1, 2}
         /\ n < 1000 => Digits(n) \in {1, 2, 3}
  <1> DEFINE fits(d) == n < 10 ^ d /\ (d = 1 \/ n >= 10 ^ (d - 1))
  <1>1. 10 ^ 1 = 10 /\ 10 ^ 2 = 100 /\ 10 ^ 3 = 1000
    OBVIOUS
  <1>2. /\ 10 ^ 4 = 10000 /\ 10 ^ 5 = 100000 /\ 10 ^ 6 = 1000000
        /\ 10 ^ 7 = 10000000 /\ 10 ^ 8 = 100000000
    OBVIOUS
  <1>3. ASSUME n < 1000, NEW d \in 1 .. 9, fits(d) PROVE d \in {1, 2, 3}
    <2>1. d = 4 => n >= 10 ^ 3
      BY <1>3
    <2>2. d = 5 => n >= 10 ^ 4
      BY <1>3
    <2>3. d = 6 => n >= 10 ^ 5
      BY <1>3
    <2>4. d = 7 => n >= 10 ^ 6
      BY <1>3
    <2>5. d = 8 => n >= 10 ^ 7
      BY <1>3
    <2>6. d = 9 => n >= 10 ^ 8
      BY <1>3
    <2> QED BY <1>1, <1>2, <1>3, <2>1, <2>2, <2>3, <2>4, <2>5, <2>6
  <1>4. ASSUME n < 100, fits(3) PROVE FALSE
    <2>1. n >= 10 ^ 2
      BY <1>4
    <2> QED BY <1>1, <1>4, <2>1
  <1>5. n < 1000 => fits(1) \/ fits(2) \/ fits(3)
    <2>1. 10 ^ (2 - 1) = 10 /\ 10 ^ (3 - 1) = 100
      OBVIOUS
    <2> QED BY <1>1, <2>1
  <1>6. n < 1000 => fits(Digits(n)) /\ Digits(n) \in 1 .. 9
    <2>1. n < 1000 => \E d \in 1 .. 9 : fits(d)
      <3>1. 1 \in 1 .. 9 /\ 2 \in 1 .. 9 /\ 3 \in 1 .. 9
        OBVIOUS
      <3> HIDE DEF fits
      <3> QED BY <1>5, <3>1
    <2>2. Digits(n) = CHOOSE d \in 1 .. 9 : fits(d)
      BY DEF Digits
    <2> HIDE DEF fits
    <2> QED BY <2>1, <2>2
  <1> HIDE DEF fits
  <1>7. n < 1000 => Digits(n) \in {1, 2, 3}
    BY <1>3, <1>6
  <1> QED BY <1>4, <1>6, <1>7

\* Every field of the RPTC packet has its width, for any [peer] the program
\* takes: what config_packet asserts.
LEMMA PacketLength ==
  ASSUME NEW peer \in PeerSections, peer.color_code <= MAX_COLOR_CODE
  PROVE  ConfigPayload(peer) = CONFIG_STRING_LEN
  <1>1. \A m \in Nat : /\ m \div 10000 \in Nat
                       /\ m <= MAX_LATITUDE => m \div 10000 < 100
                       /\ m <= MAX_LONGITUDE => m \div 10000 < 1000
    BY SMT DEF MAX_LATITUDE, MAX_LONGITUDE
  <1>2. FmtLatLon(peer.latitude, 8, MAX_LATITUDE) = 8
    <2> DEFINE m == AtMost(MAX_LATITUDE, IF peer.latitude < 0 THEN -peer.latitude
                                         ELSE peer.latitude)
    <2>1. m \in Nat /\ m <= MAX_LATITUDE
      <3>1. peer.latitude \in Int
        BY DEF PeerSections
      <3>2. MAX_LATITUDE \in Nat
        BY SMT DEF MAX_LATITUDE
      <3> QED BY <3>1, <3>2, SMT DEF AtMost
    <2> HIDE DEF m
    <2>2. Digits(m \div 10000) \in {1, 2}
      BY <1>1, <2>1, DigitsOf
    <2>3. \A d \in {1, 2} : AtLeast(8, 1 + d + 1 + 4) = 8
      BY DEF AtLeast
    <2> QED BY <2>2, <2>3 DEF FmtLatLon, m
  <1>3. FmtLatLon(peer.longitude, 9, MAX_LONGITUDE) = 9
    <2> DEFINE m == AtMost(MAX_LONGITUDE, IF peer.longitude < 0 THEN -peer.longitude
                                          ELSE peer.longitude)
    <2>1. m \in Nat /\ m <= MAX_LONGITUDE
      <3>1. peer.longitude \in Int
        BY DEF PeerSections
      <3>2. MAX_LONGITUDE \in Nat
        BY SMT DEF MAX_LONGITUDE
      <3> QED BY <3>1, <3>2, SMT DEF AtMost
    <2> HIDE DEF m
    <2>2. Digits(m \div 10000) \in {1, 2, 3}
      BY <1>1, <2>1, DigitsOf
    <2>3. \A d \in {1, 2, 3} : AtLeast(9, 1 + d + 1 + 4) = 9
      BY DEF AtLeast
    <2> QED BY <2>2, <2>3 DEF FmtLatLon, m
  <1>4. Height(peer.height) = 3
    <2>1. /\ AtMost(MAX_HEIGHT, peer.height) \in Nat
          /\ AtMost(MAX_HEIGHT, peer.height) < 1000
      BY DEF PeerSections, AtMost, MAX_HEIGHT
    <2>2. Digits(AtMost(MAX_HEIGHT, peer.height)) \in {1, 2, 3}
      BY <2>1, DigitsOf
    <2>3. \A d \in {1, 2, 3} : AtLeast(3, d) = 3
      BY DEF AtLeast
    <2> QED BY <2>2, <2>3 DEF Height, Zeroed
  <1>5. Zeroed(peer.color_code, 2) = 2
    <2>1. peer.color_code \in Nat /\ peer.color_code < 100
      BY DEF PeerSections, MAX_COLOR_CODE
    <2>2. Digits(peer.color_code) \in {1, 2}
      BY <2>1, DigitsOf
    <2>3. \A d \in {1, 2} : AtLeast(2, d) = 2
      BY DEF AtLeast
    <2> QED BY <2>2, <2>3 DEF Zeroed
  <1> QED BY <1>2, <1>3, <1>4, <1>5 DEF ConfigPayload, CONFIG_STRING_LEN, FmtStr

\* An ID of 24 bits is what its three bytes say.
LEMMA ThreeBytes ==
  ASSUME NEW id \in Nat, id <= MAX_24BIT
  PROVE  ToBytes3(id) = id
  <1>1. 2 ^ 24 = 16777216
    BY SMT
  <1> QED BY <1>1, SMT DEF ToBytes3, MAX_24BIT

\* What Config::load has refused, no later stage meets.
LEMMA LoadSound ==
  ASSUME launch \in Launches, IsOk(LoadConfig(doc))
  PROVE  /\ doc.network.keepalive_interval > 0
         /\ doc.network.keepalive_missed_limit > 0
         /\ ToBytes3(doc.peer.src_id) = doc.peer.src_id
         /\ ToBytes3(doc.dmr.talkgroup) = doc.dmr.talkgroup
         /\ ConfigPayload(doc.peer) = CONFIG_STRING_LEN
  <1>1. doc \in Documents
    BY LaunchesAssumption DEF doc
  <1>2. /\ doc.peer \in PeerSections /\ doc.dmr \in DmrSections
        /\ doc.network \in NetworkSections
    BY <1>1 DEF Documents
  <1>3. /\ None \notin {"Read", "Parse", "KeepaliveIntervalZero",
                       "KeepaliveMissedLimitZero", "SubscriberIdZero",
                       "SubscriberIdTooLarge", "TalkgroupZero",
                       "TalkgroupTooLarge", "ColorCodeTooLarge"}
    BY NoneAssumption DEF Errors
  <1>4. Parses(doc) /\ IsOk(Validate(doc))
    BY <1>3 DEF LoadConfig, IsOk, Err
  <1>5. doc.network.keepalive_interval # 0 /\ doc.network.keepalive_missed_limit # 0
    BY <1>3, <1>4 DEF Validate, IsOk, Err
  <1>6. /\ TryColorCode(doc.peer.color_code).err = None
        /\ TrySubscriberId(doc.peer.src_id).err = None
        /\ TryTalkgroup(doc.dmr.talkgroup).err = None
    <2> DEFINE errors ==
          {TryCallsign(doc.peer.callsign).err, TryDmrId(doc.peer.dmr_id).err,
           TrySubscriberId(doc.peer.src_id).err, TryFrequency(doc.peer.rx_freq).err,
           TryFrequency(doc.peer.tx_freq).err, TryColorCode(doc.peer.color_code).err,
           TrySlot(doc.dmr.slot).err, TryTalkgroup(doc.dmr.talkgroup).err}
    <2>1. errors = {None}
      BY <1>4 DEF Parses
    <2>2. \A x \in errors : x = None
      <3> HIDE DEF errors
      <3> QED BY <2>1
    <2> QED BY <2>2
  <1>7. ~(doc.peer.color_code > MAX_COLOR_CODE)
    BY <1>3, <1>6 DEF TryColorCode, Err
  <1>8. ~(doc.peer.src_id > MAX_24BIT)
    BY <1>3, <1>6 DEF TrySubscriberId, Err
  <1>9. ~(doc.dmr.talkgroup > MAX_24BIT)
    BY <1>3, <1>6 DEF TryTalkgroup, Err
  <1>10. MAX_24BIT \in Nat /\ MAX_COLOR_CODE \in Nat
    <2>1. 2 ^ 24 = 16777216
      BY SMT
    <2> QED BY <2>1, SMT DEF MAX_24BIT, MAX_COLOR_CODE
  <1>11. /\ doc.peer.color_code \in Nat /\ doc.peer.src_id \in Nat
         /\ doc.dmr.talkgroup \in Nat
         /\ doc.network.keepalive_interval \in Nat
         /\ doc.network.keepalive_missed_limit \in Nat
    BY <1>2 DEF PeerSections, DmrSections, NetworkSections
  <1>12. /\ doc.peer.color_code <= MAX_COLOR_CODE /\ doc.peer.src_id <= MAX_24BIT
         /\ doc.dmr.talkgroup <= MAX_24BIT
    BY <1>7, <1>8, <1>9, <1>10, <1>11
  <1> QED BY <1>2, <1>5, <1>11, <1>12, PacketLength, ThreeBytes

\* A secret that was found is that of one source, and no other source has any
\* (resolve_password).
LEMMA PasswordSound ==
  ASSUME IsOk(PasswordFound)
  PROVE  LET secrets == <<FromCli(launch.cli.password), launch.env.password,
                          doc.network.password,
                          IF doc.network.password_file
                          THEN FromCli(launch.file.password) ELSE None>>
         IN \E i \in 1 .. 4 :
              /\ PasswordFound.val = secrets[i] /\ NonEmpty(PasswordFound.val)
              /\ \A j \in 1 .. 4 : NonEmpty(secrets[j]) => j = i
  <1> DEFINE sources == [cli |-> FromCli(launch.cli.password),
                         env |-> launch.env.password,
                         config |-> doc.network.password]
             content == IF doc.network.password_file
                        THEN launch.file.password ELSE None
             all == [s \in DOMAIN sources \cup {"file"} |->
                       IF s = "file" THEN ReadOptional(content).val ELSE sources[s]]
             found == Candidates(all)
             pick == CHOOSE s \in found : TRUE
             secrets == <<FromCli(launch.cli.password), launch.env.password,
                          doc.network.password,
                          IF doc.network.password_file
                          THEN FromCli(launch.file.password) ELSE None>>
  <1> SUFFICES \E k \in 1 .. 4 :
           /\ PasswordFound.val = secrets[k] /\ NonEmpty(PasswordFound.val)
           /\ \A j \in 1 .. 4 : NonEmpty(secrets[j]) => j = k
    OBVIOUS
  <1>1. None \notin {"PasswordFile", "PasswordMissing", "PasswordAmbiguous"}
    BY NoneAssumption DEF Errors
  <1>2. PasswordFound = ResolvePassword(sources, content)
    BY DEF PasswordFound
  <1>3. Cardinality(found) = 1 /\ PasswordFound.val = all[pick]
    <2> DEFINE read == ReadOptional(content)
    <2>1. ResolvePassword(sources, content) =
            CASE ~IsOk(read) -> Err("PasswordFile")
              [] IsOk(read) /\ found = {} -> Err("PasswordMissing")
              [] IsOk(read) /\ Cardinality(found) = 1 -> Ok(all[pick])
              [] OTHER -> Err("PasswordAmbiguous")
      BY DEF ResolvePassword
    <2> HIDE DEF read, found, pick, all, sources, content
    <2> QED BY <1>1, <1>2, <2>1, FS_EmptySet DEF IsOk, Err, Ok
  <1>4. DOMAIN all = {"cli", "env", "config", "file"}
    OBVIOUS
  <1>5. all = [cli |-> secrets[1], env |-> secrets[2], config |-> secrets[3],
               file |-> secrets[4]]
    <2>1. ReadOptional(content).val = secrets[4]
      BY DEF FromCli, ReadOptional, Ok
    <2> QED BY <2>1
  <1>6. found \subseteq {"cli", "env", "config", "file"} /\ IsFiniteSet(found)
    <2>1. found \subseteq DOMAIN all
      BY DEF Candidates
    <2> HIDE DEF found, all
    <2> QED BY <1>4, <2>1, SourcesFinite, FS_Subset
  <1>7. pick \in found /\ \A s \in found : s = pick
    <2> HIDE DEF found
    <2>1. PICK x : found = {x}
      BY <1>3, <1>6, FS_Singleton
    <2> QED BY <2>1
  <1>8. NonEmpty(all[pick]) /\ \A s \in DOMAIN all : NonEmpty(all[s]) => s = pick
    <2> HIDE DEF pick, all
    <2> QED BY <1>7 DEF Candidates
  <1> HIDE DEF found, pick, secrets
  <1>9. /\ all["cli"] = secrets[1] /\ all["env"] = secrets[2]
        /\ all["config"] = secrets[3] /\ all["file"] = secrets[4]
    BY <1>5
  <1> HIDE DEF all
  <1>10. \A i \in 1 .. 4 : i = 1 \/ i = 2 \/ i = 3 \/ i = 4
    OBVIOUS
  <1>11. ASSUME NEW i \in 1 .. 4, all[pick] = secrets[i],
                \A j \in 1 .. 4 : NonEmpty(secrets[j]) => j = i
         PROVE  \E k \in 1 .. 4 :
                  /\ PasswordFound.val = secrets[k] /\ NonEmpty(PasswordFound.val)
                  /\ \A j \in 1 .. 4 : NonEmpty(secrets[j]) => j = k
    BY <1>3, <1>8, <1>11
  <1>12. pick \in {"cli", "env", "config", "file"}
    BY <1>6, <1>7
  <1>13. CASE pick = "cli"
    BY <1>4, <1>8, <1>9, <1>10, <1>11, <1>13
  <1>14. CASE pick = "env"
    BY <1>4, <1>8, <1>9, <1>10, <1>11, <1>14
  <1>15. CASE pick = "config"
    BY <1>4, <1>8, <1>9, <1>10, <1>11, <1>15
  <1>16. CASE pick = "file"
    BY <1>4, <1>8, <1>9, <1>10, <1>11, <1>16
  <1> QED BY <1>12, <1>13, <1>14, <1>15, <1>16

\* Statics are declared only with a key to write them with (resolve_api_key).
LEMMA TokenSound ==
  ASSUME IsOk(ApiKeyFound), HasApi, ApiKeyFound.val = None
  PROVE  \A s \in Slots : Declared[s] = None
  <1> DEFINE section == doc.brandmeister_api
             sources == [cli |-> FromCli(launch.cli.api_key),
                         env |-> launch.env.api_key,
                         config |-> doc.brandmeister_api.api_key]
             content == IF doc.brandmeister_api.api_key_file
                        THEN launch.file.api_key ELSE None
             read == ReadOptional(content)
             all == [s \in DOMAIN sources \cup {"file"} |->
                       IF s = "file" THEN read.val ELSE sources[s]]
             found == Candidates(all)
             pick == CHOOSE s \in found : TRUE
             declared == {s \in {1, 2} : section.static_talkgroups[s] # None}
  <1>1. None \notin {"BrandmeisterApiKeyFile", "BrandmeisterApiKeyAmbiguous",
                    "BrandmeisterApiKeyMissingForStatics"}
    BY NoneAssumption DEF Errors
  <1>2. ApiKeyFound = ResolveApiKey(section, sources, content)
    BY DEF ApiKeyFound
  <1>3. ResolveApiKey(section, sources, content) =
          CASE section = None -> Ok(None)
            [] section # None /\ ~IsOk(read) -> Err("BrandmeisterApiKeyFile")
            [] section # None /\ IsOk(read) ->
                 CASE Cardinality(found) > 1 -> Err("BrandmeisterApiKeyAmbiguous")
                   [] Cardinality(found) = 1 -> Ok(all[pick])
                   [] found = {} ->
                        IF declared = {} THEN Ok(None)
                        ELSE Err("BrandmeisterApiKeyMissingForStatics")
    BY DEF ResolveApiKey
  <1>4. section # None
    BY DEF HasApi
  <1>5. DOMAIN all = {"cli", "env", "config", "file"} /\ found \subseteq DOMAIN all
    BY DEF Candidates
  <1>6. /\ Cardinality(found) \in Nat /\ Cardinality({}) = 0
        /\ Cardinality(found) = 0 => found = {}
        /\ Cardinality(found) = 1 => \E x : found = {x}
    <2> HIDE DEF found, all
    <2>1. IsFiniteSet(found)
      BY <1>5, SourcesFinite, FS_Subset
    <2> QED BY <2>1, FS_CardinalityType, FS_EmptySet, FS_Singleton
  <1>7. Cardinality(found) = 1 => all[pick] # None
    <2> HIDE DEF found
    <2>1. Cardinality(found) = 1 => pick \in found
      BY <1>6
    <2> HIDE DEF pick, all
    <2> QED BY <2>1 DEF found, Candidates, NonEmpty
  <1> HIDE DEF section, sources, content, read, all, found, pick
  <1>8. Cardinality(found) = 0 \/ Cardinality(found) = 1 \/ Cardinality(found) > 1
    BY <1>6
  <1>9. declared = {}
    <2> HIDE DEF declared
    <2>1. CASE ~IsOk(read)
      BY <1>1, <1>2, <1>3, <1>4, <2>1 DEF IsOk, Err
    <2>2. CASE IsOk(read) /\ Cardinality(found) > 1
      <3>1. ApiKeyFound = Err("BrandmeisterApiKeyAmbiguous")
              \/ Cardinality(found) = 1 \/ found = {}
        BY <1>2, <1>3, <1>4, <2>2
      <3> QED BY <1>1, <1>6, <2>2, <3>1 DEF IsOk, Err
    <2>3. CASE IsOk(read) /\ Cardinality(found) = 1
      <3>1. found # {} /\ ~(Cardinality(found) > 1)
        BY <1>6, <2>3
      <3>2. ApiKeyFound = Ok(all[pick])
        BY <1>2, <1>3, <1>4, <2>3, <3>1
      <3> QED BY <1>7, <2>3, <3>2 DEF Ok
    <2>4. CASE IsOk(read) /\ Cardinality(found) = 0
      <3>1. found = {} /\ ~(Cardinality(found) > 1) /\ Cardinality(found) # 1
        BY <1>6, <2>4
      <3>2. ApiKeyFound = IF declared = {} THEN Ok(None)
                          ELSE Err("BrandmeisterApiKeyMissingForStatics")
        BY <1>2, <1>3, <1>4, <2>4, <3>1
      <3> QED BY <1>1, <3>2 DEF IsOk, Err
    <2> QED BY <1>8, <2>1, <2>2, <2>3, <2>4
  <1> QED BY <1>9 DEF section, Declared, Slots

\* make_vocoder opens what the section names for each direction.
LEMMA VocoderSound ==
  ASSUME launch \in Launches, NEW up, NEW refused,
         IsOk(MakeVocoder(doc.vocoder, up)),
         IsOk(SetGain(MakeVocoder(doc.vocoder, up).val, refused))
  PROVE  Fitted(SetGain(MakeVocoder(doc.vocoder, up).val, refused).val)
  <1> DEFINE section == doc.vocoder
             opened == MakeVocoder(section, up)
             v == opened.val
             Names == Halves \cup {"model", "native_gru", "onnx"}
  <1>1. /\ section.backend \in Halves
        /\ section.backend = "neural" /\ section.neural # None =>
             /\ section.neural.encoder_backend \in Halves
             /\ section.neural.decoder_backend \in Halves
             /\ section.neural.decoder # None =>
                  section.neural.decoder.step \in {"native_gru", "onnx"}
    <2>1. section \in VocoderSections
      BY LaunchesAssumption DEF doc, Documents
    <2>2. section.neural # None => section.neural \in NeuralSections
      BY <2>1 DEF VocoderSections
    <2>3. section.backend \in Halves
      BY <2>1 DEF VocoderSections, Backends, Halves
    <2> HIDE DEF section
    <2> QED BY <2>2, <2>3 DEF NeuralSections, DecoderSections
  <1> HIDE DEF section
  <1>2. None \notin Names /\ None \notin {"NotCompiled", "SectionMissing", "Vocoder",
                                       "unreachable"}
    BY NoneAssumption DEF Errors
  <1>3. ASSUME NEW half \in Halves, IsOk(OpenPlain(half, section, up))
        PROVE  OpenPlain(half, section, up).val = Opened(half, half)
    BY <1>2, <1>3 DEF OpenPlain, Open, Halves, IsOk, Ok, Err
  <1>4. ASSUME NEW d, IsOk(OpenNeuralDecoder(d, up)),
               d # None => d.step \in {"native_gru", "onnx"}
        PROVE  OpenNeuralDecoder(d, up).val.decode \in Names
    BY <1>2, <1>4 DEF OpenNeuralDecoder, Opened, IsOk, Ok, Err
  <1>5. /\ v.encode \in Names /\ v.decode \in Names /\ v = [encode |-> v.encode,
             decode |-> v.decode, inGain |-> "unity", outGain |-> "unity"]
        /\ section.backend # "neural" =>
             v.encode = section.backend /\ v.decode = section.backend
        /\ section.backend = "neural" /\ section.neural.encoder_backend # "neural"
             => v.encode = section.neural.encoder_backend
    <2>1. CASE section.backend # "neural"
      <3>1. opened = OpenPlain(section.backend, section, up)
        BY <2>1 DEF MakeVocoder
      <3>2. v = Opened(section.backend, section.backend)
        BY <1>1, <1>3, <3>1 DEF section
      <3> HIDE DEF v
      <3> QED BY <1>1, <2>1, <3>2 DEF Opened
    <2>2. CASE section.backend = "neural"
      <3> DEFINE nc == section.neural
                 decoder == IF nc.decoder_backend = "neural"
                            THEN OpenNeuralDecoder(nc.decoder, up)
                            ELSE OpenPlain(nc.decoder_backend, section, up)
                 encoder == OpenPlain(nc.encoder_backend, section, up)
      <3>1. IsOk(opened)
        BY DEF section
      <3>2. nc # None /\ opened = OpenNeural(section, up)
        BY <1>2, <2>2, <3>1 DEF MakeVocoder, IsOk, Err
      <3>3. /\ IsOk(decoder)
            /\ \/ nc.encoder_backend = "neural"
                  /\ opened = Ok(Split(Opened("model", None), decoder.val))
               \/ /\ nc.encoder_backend # "neural" /\ IsOk(encoder)
                  /\ opened = Ok(Split(encoder.val, decoder.val))
        <4>1. opened =
                CASE ~IsOk(decoder) -> decoder
                  [] IsOk(decoder) /\ nc.encoder_backend = "neural" ->
                       IF ~nc.encoder_model_path THEN Err("SectionMissing")
                       ELSE IF "model" \notin up THEN Err("Vocoder")
                       ELSE Ok(Split(Opened("model", None), decoder.val))
                  [] IsOk(decoder) /\ nc.encoder_backend # "neural" ->
                       IF IsOk(encoder) THEN Ok(Split(encoder.val, decoder.val))
                       ELSE encoder
          BY <3>2 DEF OpenNeural
        <4> HIDE DEF decoder, encoder, opened, nc
        <4> QED BY <1>2, <3>1, <4>1 DEF IsOk, Err
      <3>4. decoder.val.decode \in Names
        <4>1. CASE nc.decoder_backend = "neural"
          <5>1. IsOk(OpenNeuralDecoder(nc.decoder, up))
            BY <3>3, <4>1
          <5>2. nc.decoder # None => nc.decoder.step \in {"native_gru", "onnx"}
            BY <1>1, <2>2, <3>2
          <5> QED BY <1>4, <4>1, <5>1, <5>2
        <4>2. CASE nc.decoder_backend # "neural"
          <5>1. IsOk(OpenPlain(nc.decoder_backend, section, up))
            BY <3>3, <4>2
          <5>2. nc.decoder_backend \in Halves
            BY <1>1, <2>2, <3>2
          <5>3. decoder.val = Opened(nc.decoder_backend, nc.decoder_backend)
            BY <1>3, <4>2, <5>1, <5>2
          <5> QED BY <5>2, <5>3 DEF Opened
        <4> QED BY <4>1, <4>2
      <3>5. nc.encoder_backend # "neural" =>
              encoder.val.encode = nc.encoder_backend /\ nc.encoder_backend \in Names
        <4>1. nc.encoder_backend \in Halves
          BY <1>1, <2>2, <3>2
        <4>2. IsOk(encoder) => encoder.val = Opened(nc.encoder_backend, nc.encoder_backend)
          BY <1>3, <4>1
        <4> QED BY <3>3, <4>1, <4>2 DEF Opened
      <3> HIDE DEF decoder, encoder, opened
      <3>6. \A e, d : Ok(Split(e, d)).val =
              [encode |-> e.encode, decode |-> d.decode,
               inGain |-> "unity", outGain |-> "unity"]
        BY DEF Ok, Split, Opened
      <3>7. Opened("model", None).encode = "model"
        BY DEF Opened
      <3>8. "model" \in Names
        OBVIOUS
      <3> DEFINE e == IF nc.encoder_backend = "neural" THEN Opened("model", None)
                      ELSE encoder.val
      <3>9. /\ e.encode \in Names
            /\ nc.encoder_backend # "neural" => e.encode = nc.encoder_backend
        BY <3>5, <3>7, <3>8
      <3>10. opened = Ok(Split(e, decoder.val))
        BY <3>3
      <3> HIDE DEF e, Names
      <3>11. v = [encode |-> e.encode, decode |-> decoder.val.decode,
                  inGain |-> "unity", outGain |-> "unity"]
        BY <3>6, <3>10
      <3>12. v.encode = e.encode /\ v.decode = decoder.val.decode
        <4> HIDE DEF v
        <4> QED BY <3>11
      <3> HIDE DEF v
      <3> QED BY <2>2, <3>4, <3>9, <3>11, <3>12
    <2> QED BY <2>1, <2>2
  <1> DEFINE g == SetGain(v, refused)
  <1>6. g.val = [v EXCEPT !.inGain = "in", !.outGain = "out"]
    <2>1. IsOk(g)
      BY DEF section
    <2> HIDE DEF v
    <2> QED BY <1>2, <2>1 DEF SetGain, IsOk, Ok, Err
  <1> HIDE DEF opened, v
  <1>7. /\ g.val.encode = v.encode /\ g.val.decode = v.decode
        /\ g.val.inGain = "in" /\ g.val.outGain = "out"
    BY <1>5, <1>6
  <1> HIDE DEF g, Names
  <1>8. Fitted(g.val)
    BY <1>2, <1>5, <1>7 DEF Fitted, section
  <1> QED BY <1>8 DEF g, v, opened, section

\* Nothing of what is resolved changes with the process.
LEMMA SameLaunch ==
  ASSUME launch' = launch
  PROVE  /\ doc' = doc /\ HasApi' = HasApi /\ Declared' = Declared
         /\ LoadConfig(doc)' = LoadConfig(doc)
         /\ PasswordFound' = PasswordFound /\ ApiKeyFound' = ApiKeyFound
         /\ \A v : Fitted(v)' <=> Fitted(v)
  BY DEF doc, HasApi, Declared, PasswordFound, ApiKeyFound, FromCli, Fitted

LEMMA CheckedInit == Init => Checked
  BY NoneIsNeither DEF Init, Checked

LEMMA CheckedNext == Checked /\ [Next]_vars => Checked'
  <1> SUFFICES ASSUME Checked, [Next]_vars PROVE Checked'
    OBVIOUS
  <1>0. launch' = launch
    BY Elsewhere
  <1>1. /\ LoadConfig(doc)' = LoadConfig(doc)
        /\ PasswordFound' = PasswordFound /\ ApiKeyFound' = ApiKeyFound
        /\ \A v : Fitted(v)' <=> Fitted(v)
    BY <1>0, SameLaunch
  <1>2. CASE ReadArgs
    BY <1>0, <1>2, FileErrors DEF Checked, ReadArgs, Then, Exit
  <1>3. CASE Load
    BY <1>0, <1>1, <1>3, LoadErrors DEF Checked, Load, Then, Exit
  <1>4. CASE Resolve
    <2>1. CASE IsOk(PasswordFound) /\ IsOk(ApiKeyFound)
      <3>1. /\ stage' \in {"provision", "subscribers"} /\ exit' = exit
            /\ password' = PasswordFound.val /\ token' = ApiKeyFound.val
        BY <1>4, <2>1 DEF Resolve, Then
      <3>2. IsOk(LoadConfig(doc))
        BY <1>4 DEF Resolve, Checked
      <3> QED BY <1>0, <1>1, <2>1, <3>1, <3>2 DEF Checked, IsOk
    <2>2. CASE ~(IsOk(PasswordFound) /\ IsOk(ApiKeyFound))
      <3>1. stage' = "exited" /\ exit' # "unreachable"
        BY <1>4, <2>2, PasswordErrors, ApiKeyErrors DEF Resolve, Then, Exit
      <3> QED BY <1>0, <3>1 DEF Checked
    <2> QED BY <2>1, <2>2
  <1>5. CASE Abandon \/ Joined
    BY <1>0, <1>5 DEF Checked, Abandon, Joined, Exit
  <1>6. CASE Provisioned
    BY <1>0, <1>1, <1>6 DEF Checked, Provisioned, IsOk
  <1>7. CASE LoadSubscribers
    BY <1>0, <1>1, <1>7 DEF Checked, LoadSubscribers, IsOk
  <1>8. CASE Bind
    <2>1. /\ stage = "sockets" /\ UNCHANGED <<password, token>>
          /\ \/ stage' = "vocoder" /\ exit' = exit
             \/ stage' = "exited" /\ exit' # "unreachable"
      BY <1>8 DEF Bind, Then, Exit, IsOk, Err, Ok
    <2> QED BY <1>0, <1>1, <2>1 DEF Checked, IsOk
  <1>9. CASE OpenVocoder
    <2>1. PICK up \in SUBSET Devices, refused \in BOOLEAN :
            LET opened == MakeVocoder(doc.vocoder, up)
                gained == IF IsOk(opened) THEN SetGain(opened.val, refused) ELSE opened
            IN IF IsOk(gained)
               THEN /\ stage' = "running" /\ alive' = Branches
                    /\ vocoder' = gained.val /\ UNCHANGED exit
               ELSE Exit(gained.err) /\ UNCHANGED vocoder
      BY <1>9 DEF OpenVocoder
    <2> DEFINE opened == MakeVocoder(doc.vocoder, up)
               gained == IF IsOk(opened) THEN SetGain(opened.val, refused) ELSE opened
    <2>2. CASE IsOk(gained)
      <3>1. IsOk(opened)
        BY <2>2
      <3>2. Fitted(gained.val)
        BY <2>2, <3>1, VocoderSound DEF Checked
      <3>3. stage' = "running" /\ exit' = exit /\ vocoder' = gained.val
        BY <2>1, <2>2
      <3>4. stage = "vocoder" /\ UNCHANGED <<password, token>>
        BY <1>9 DEF OpenVocoder
      <3>5. Fitted(vocoder)'
        <4> HIDE DEF gained
        <4>1. PICK g : g = gained.val
          OBVIOUS
        <4> QED BY <1>0, <3>2, <3>3, <4>1 DEF Fitted, doc
      <3> HIDE DEF gained, opened
      <3> QED BY <1>0, <1>1, <3>3, <3>4, <3>5 DEF Checked, IsOk
    <2>3. CASE ~IsOk(gained)
      <3>1. gained.err # "unreachable"
        <4>1. doc.vocoder \in VocoderSections
          BY LaunchesAssumption DEF Checked, doc, Documents
        <4>2. opened.err # "unreachable"
          BY <4>1, VocoderErrors
        <4>3. \A v, r : SetGain(v, r).err # "unreachable"
          BY NoneIsNeither DEF SetGain, Ok, Err
        <4> QED BY <4>2, <4>3
      <3>2. stage' = "exited" /\ exit' = gained.err
        BY <2>1, <2>3 DEF Exit
      <3> HIDE DEF gained, opened
      <3> QED BY <1>0, <3>1, <3>2 DEF Checked
    <2> QED BY <2>2, <2>3
  <1>10. ASSUME NEW b \in Branches, End(b) PROVE Checked'
    BY <1>0, <1>1, <1>10 DEF Checked, End, IsOk
  <1>11. CASE \/ Provisioning \/ Refreshing \/ EditStatics \/ UpdateFile
              \/ Signal \/ VocoderFails \/ UNCHANGED vars
    <2>1. UNCHANGED <<stage, exit, password, token, vocoder>>
      BY <1>11 DEF Provisioning, Refreshing, Reconcile, ProvisionStep, Refresh,
                   Reloaded, EditStatics, UpdateFile, Signal, VocoderFails, vars,
                   mainVars
    <2>2. Fitted(vocoder)' <=> Fitted(vocoder)
      BY <1>0, <2>1 DEF Fitted, doc
    <2> QED BY <1>0, <1>1, <2>1, <2>2 DEF Checked, IsOk
  <1> QED
    BY <1>2, <1>3, <1>4, <1>5, <1>6, <1>7, <1>8, <1>9, <1>10, <1>11
       DEF Next, MainTask

\* A process that runs has one password and no second one anywhere, a key for
\* the statics it declares, keepalives that can be counted, IDs that are what
\* their three bytes say, a configuration packet of the length config_packet
\* asserts, and a backend with its gain for each direction; and none gets to
\* the unreachable!() of make_neural_half: for every file, environment and
\* command line the schema takes, and whatever devices answer.
THEOREM StartsOnlySound == Spec => []StartsSound
  <1>1. Checked => StartsSound
    <2> SUFFICES ASSUME Checked PROVE StartsSound
      OBVIOUS
    <2>1. exit # "unreachable" /\ launch \in Launches
      BY DEF Checked
    <2>2. CASE stage # "running"
      BY <2>1, <2>2 DEF StartsSound
    <2>3. CASE stage = "running"
      <3>1. /\ IsOk(LoadConfig(doc)) /\ IsOk(PasswordFound) /\ IsOk(ApiKeyFound)
            /\ password = PasswordFound.val /\ token = ApiKeyFound.val
            /\ Fitted(vocoder)
        BY <2>3 DEF Checked
      <3>2. HasApi /\ token = None => \A s \in Slots : Declared[s] = None
        BY <3>1, TokenSound
      <3>3. /\ vocoder.encode # None /\ vocoder.decode # None
            /\ vocoder.inGain = "in" /\ vocoder.outGain = "out"
            /\ doc.vocoder.backend \notin {"neural"} =>
                 {vocoder.encode, vocoder.decode} = {doc.vocoder.backend}
            /\ doc.vocoder.backend = "neural"
                 /\ doc.vocoder.neural.encoder_backend # "neural" =>
                    vocoder.encode = doc.vocoder.neural.encoder_backend
        BY <3>1 DEF Fitted
      <3> QED BY <2>1, <3>1, <3>2, <3>3, LoadSound, PasswordSound DEF StartsSound
    <2> QED BY <2>2, <2>3
  <1> QED BY CheckedInit, CheckedNext, <1>1, PTL DEF Spec
=============================================================================
