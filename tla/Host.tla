-------------------------------- MODULE Host --------------------------------
(***************************************************************************)
(* The bridge process (bridge/src/main.rs): from the command line to the   *)
(* nine branches of its join!, and from a signal to its exit.              *)
(*                                                                         *)
(* What the branches of the voice path do is not seen here (PttMC,         *)
(* Homebrew, UsrpTx, Stats): of those only their end matters.  The two     *)
(* housekeeping branches, provisioning and the subscriber reload, are      *)
(* whole.                                                                  *)
(***************************************************************************)
EXTENDS Config, Provision, Subscribers

CONSTANT Launches   \* the ways to start the process

ASSUME LaunchesAssumption ==
  Launches \subseteq
    [doc : Documents,
     cli : [password : FileContents \cup {None}, api_key : FileContents \cup {None}],
     env : [password : {None, "empty", "plain"},
            api_key : {None, "empty", "plain", "unprintable"}],
     file : [password : FileContents, api_key : FileContents]]

\* A process that has not ended has not ended well, and Option::None is neither
\* an error nor a backend.
Errors ==
  {"DmrIdZero", "SubscriberIdZero", "SubscriberIdTooLarge", "TalkgroupZero",
   "TalkgroupTooLarge", "ColorCodeTooLarge", "SlotInvalid", "Frequency",
   "Callsign", "Read", "Parse", "KeepaliveIntervalZero",
   "KeepaliveMissedLimitZero", "NeuralBothNonNeural", "Io", "Multiline",
   "PasswordFile", "PasswordMissing", "PasswordAmbiguous",
   "BrandmeisterApiKeyFile", "BrandmeisterApiKeyAmbiguous",
   "BrandmeisterApiKeyMissingForStatics", "Resolve", "Bind", "NotCompiled",
   "SectionMissing", "Vocoder", "unreachable"}

ASSUME OkAssumption == None # "ok"
ASSUME NoneAssumption ==
  None \notin Errors \cup Halves \cup {"model", "native_gru", "onnx"}

VARIABLES
  launch,     \* how it was started: the files, the environment
  stage,      \* what async_main is at
  exit,       \* how it ended: ok, or the error
  password,   \* the secrets resolved
  token,
  vocoder,
  alive,      \* branches of the join! that have not ended
  cancel,     \* the CancellationToken
  cause       \* history: what cancelled it, a signal or a failed vocoder

mainVars == <<launch, stage, exit, password, token, vocoder, alive, cancel, cause>>
vars == <<mainVars, provisionVars, subscriberVars>>

doc == launch.doc
HasApi == doc.brandmeister_api # None
Declared == doc.brandmeister_api.static_talkgroups

Stages == <<"args", "load", "resolve", "provision", "subscribers", "sockets",
            "vocoder", "running", "exited">>

-----------------------------------------------------------------------------
(* async_main up to the join!. *)

Exit(how) == stage' = "exited" /\ exit' = how /\ alive' = {}

\* Goes on to the next stage, or returns the error with `?'.
Then(next, result) ==
  IF IsOk(result) THEN stage' = next /\ UNCHANGED <<exit, alive>>
  ELSE Exit(result.err)

\* The files of --password-file and --api-key-file, then the environment.
ReadArgs ==
  /\ stage = "args"
  /\ LET pw == ReadOptional(launch.cli.password)
         key == ReadOptional(launch.cli.api_key)
     IN Then("load", IF IsOk(pw) THEN key ELSE pw)
  /\ UNCHANGED <<launch, password, token, vocoder, cancel, cause>>
  /\ UNCHANGED <<provisionVars, subscriberVars>>

Load ==
  /\ stage = "load"
  /\ Then("resolve", LoadConfig(doc))
  /\ UNCHANGED <<launch, password, token, vocoder, cancel, cause>>
  /\ UNCHANGED <<provisionVars, subscriberVars>>

\* Secrets of the command line's files; blank ones supply nothing.
FromCli(contents) == ReadOptional(contents).val
PasswordFound ==
  ResolvePassword([cli |-> FromCli(launch.cli.password), env |-> launch.env.password,
                   config |-> doc.network.password],
                  IF doc.network.password_file THEN launch.file.password ELSE None)
ApiKeyFound ==
  IF ~HasApi THEN Ok(None) ELSE
    ResolveApiKey(doc.brandmeister_api,
                  [cli |-> FromCli(launch.cli.api_key), env |-> launch.env.api_key,
                   config |-> doc.brandmeister_api.api_key],
                  IF doc.brandmeister_api.api_key_file THEN launch.file.api_key
                  ELSE None)

\* The signal handler is installed, and provisioning started, right after.
Resolve ==
  /\ stage = "resolve"
  /\ LET found == IF IsOk(PasswordFound) THEN ApiKeyFound ELSE PasswordFound
     IN /\ Then(IF HasApi THEN "provision" ELSE "subscribers", found)
        /\ IF IsOk(found)
           THEN password' = PasswordFound.val /\ token' = ApiKeyFound.val
           ELSE UNCHANGED <<password, token>>
        /\ IF IsOk(found) /\ HasApi THEN StartRun ELSE UNCHANGED provisionVars
  /\ UNCHANGED <<launch, vocoder, cancel, cause, subscriberVars>>

\* The token is cancelled by the handler's own task.
Listening == stage \notin {"args", "load", "resolve", "exited"}
Signal ==
  /\ Listening /\ ~cancel
  /\ cancel' = TRUE /\ cause' = "signal"
  /\ UNCHANGED <<launch, stage, exit, password, token, vocoder, alive>>
  /\ UNCHANGED <<provisionVars, subscriberVars>>

\* The select! drops provisioning when cancelled, and the process is done.
Abandon ==
  /\ stage = "provision" /\ cancel
  /\ Exit("ok") /\ DropRun
  /\ UNCHANGED <<launch, password, token, vocoder, cancel, cause, subscriberVars>>

Provisioned ==
  /\ stage = "provision" /\ run = "idle"
  /\ stage' = "subscribers"
  /\ UNCHANGED <<launch, exit, password, token, vocoder, alive, cancel, cause>>
  /\ UNCHANGED <<provisionVars, subscriberVars>>

LoadSubscribers ==
  /\ stage = "subscribers" /\ stage' = "sockets"
  /\ IF doc.peer.subscriber_file THEN InitialLoad ELSE UNCHANGED subscriberVars
  /\ UNCHANGED <<launch, exit, password, token, vocoder, alive, cancel, cause>>
  /\ UNCHANGED provisionVars

\* resolve_socket_addr for both ends, then the bind.
Bind ==
  /\ stage = "sockets"
  /\ \E outcome \in {Ok(TRUE), Err("Resolve"), Err("Bind")} : Then("vocoder", outcome)
  /\ UNCHANGED <<launch, password, token, vocoder, cancel, cause>>
  /\ UNCHANGED <<provisionVars, subscriberVars>>

\* "usrp" is the rx and the tx branch.
Branches == {"usrp", "homebrew", "voice", "subscriber", "brandmeister",
             "stats", "heartbeat", "summary"}
Devices == {"thumbdv", "ambeserver", "model", "native_gru", "onnx"}

OpenVocoder ==
  /\ stage = "vocoder"
  /\ \E up \in SUBSET Devices, refused \in BOOLEAN :
       LET opened == MakeVocoder(doc.vocoder, up)
           gained == IF IsOk(opened) THEN SetGain(opened.val, refused) ELSE opened
       IN IF IsOk(gained)
          THEN /\ stage' = "running" /\ alive' = Branches
               /\ vocoder' = gained.val /\ UNCHANGED exit
          ELSE Exit(gained.err) /\ UNCHANGED vocoder
  /\ UNCHANGED <<launch, password, token, cancel, cause>>
  /\ UNCHANGED <<provisionVars, subscriberVars>>

-----------------------------------------------------------------------------
(* The branches. *)

Refreshes == doc.peer.subscriber_file /\ doc.peer.subscriber_refresh_interval # 0
Reconciles == HasApi /\ doc.brandmeister_api.reconcile_interval # 0

\* subscriber_refresh and periodic_provision await what they do inside an arm
\* of their select!, so that they see the cancel only between two ticks.
Refresh ==
  /\ "subscriber" \in alive /\ Refreshes /\ ~cancel
  /\ StartReload
  /\ UNCHANGED <<mainVars, provisionVars>>

Reloaded == EndReload /\ UNCHANGED <<mainVars, provisionVars>>

Reconcile ==
  /\ "brandmeister" \in alive /\ Reconciles /\ ~cancel
  /\ StartRun
  /\ UNCHANGED <<mainVars, subscriberVars>>

ProvisionStep == RunStep(token, Declared) /\ UNCHANGED <<mainVars, subscriberVars>>

\* Mutant: a housekeeping branch with nothing to do returns at once.
MayEndUnparked(b) ==
  CASE b = "subscriber" -> ~Refreshes \/ (cancel /\ ~reloading)
    [] b = "brandmeister" -> ~Reconciles \/ (cancel /\ run = "idle")
    [] OTHER -> cancel
\* Mutant: the reload loop has no arm for the cancel.
MayEndButRefreshing(b) ==
  CASE b = "stats" -> "voice" \notin alive
    [] b = "subscriber" -> cancel /\ ~Refreshes
    [] b = "brandmeister" -> cancel /\ run = "idle"
    [] OTHER -> cancel

\* fatal_vocoder: a vocoder call of voice_task panics, or finds that one has.
VocoderFails ==
  /\ "voice" \in alive /\ ~cancel
  /\ cancel' = TRUE /\ cause' = "vocoder"
  /\ UNCHANGED <<launch, stage, exit, password, token, vocoder, alive>>
  /\ UNCHANGED <<provisionVars, subscriberVars>>

\* What a branch has to see to end.  The events end with the voice task's sender;
\* a timer of interval zero never starts.
MayEnd(b) ==
  CASE b = "stats" -> "voice" \notin alive
    [] b = "heartbeat" -> cancel \/ doc.stats.heartbeat_interval = 0
    [] b = "summary" -> cancel \/ doc.stats.summary_interval = 0
    [] b = "subscriber" -> cancel /\ ~reloading
    [] b = "brandmeister" -> cancel /\ run = "idle"
    [] OTHER -> cancel

\* All but the three of the statistics cancel the others as they end.
End(b) ==
  /\ b \in alive /\ MayEnd(b)
  /\ alive' = alive \ {b}
  /\ cancel' = (cancel \/ b \notin {"stats", "heartbeat", "summary"})
  /\ UNCHANGED <<launch, stage, exit, password, token, vocoder, cause>>
  /\ UNCHANGED <<provisionVars, subscriberVars>>

Joined ==
  /\ stage = "running" /\ alive = {}
  /\ Exit("ok")
  /\ UNCHANGED <<launch, password, token, vocoder, cancel, cause>>
  /\ UNCHANGED <<provisionVars, subscriberVars>>

-----------------------------------------------------------------------------
(* The world: SelfCare edits, a new file under subscriber_file. *)

EditStatics ==
  /\ stage = "running" /\ HasApi /\ Edit
  /\ UNCHANGED <<mainVars, subscriberVars>>

UpdateFile ==
  /\ stage = "running" /\ doc.peer.subscriber_file /\ Update
  /\ UNCHANGED <<mainVars, provisionVars>>

Init ==
  /\ launch \in Launches
  /\ stage = "args" /\ exit = None /\ password = None /\ token = None
  /\ vocoder = None /\ alive = {} /\ cancel = FALSE /\ cause = None
  /\ ProvisionInit /\ SubscribersInit
  /\ ~HasApi => statics = CHOOSE a \in Assigned : TRUE
  /\ ~doc.peer.subscriber_file => file = None

MainTask ==
  \/ ReadArgs \/ Load \/ Resolve \/ Abandon \/ Provisioned \/ LoadSubscribers
  \/ Bind \/ OpenVocoder \/ Joined
  \/ \E b \in Branches : End(b)
Provisioning == Reconcile \/ ProvisionStep
Refreshing == Refresh \/ Reloaded

Next == MainTask \/ Provisioning \/ Refreshing \/ Signal \/ VocoderFails
        \/ EditStatics \/ UpdateFile

Spec == Init /\ [][Next]_vars

\* The runtime polls what is ready and its timers tick; a request is answered or
\* times out.  The main task takes finitely many steps, so one condition for all
\* of them lets none wait for ever.  Nobody has to send a signal, to edit the
\* statics or to touch the file, and the vocoder need not fail.
Fairness ==
  WF_vars(MainTask) /\ WF_vars(Provisioning) /\ WF_vars(Refreshing)

FairSpec == Spec /\ Fairness
-----------------------------------------------------------------------------
(* Properties. *)

\* What config.rs and main.rs leave no later check for: a process that runs has
\* one password and no second one anywhere, a key for the statics it declares,
\* keepalives that can be counted, a configuration packet the assert of
\* config_packet lets pass, a backend for each direction with the gain of that
\* direction; and it never gets to make_neural_half's unreachable!().
StartsSound ==
  LET secrets == <<FromCli(launch.cli.password), launch.env.password,
                   doc.network.password,
                   IF doc.network.password_file THEN FromCli(launch.file.password)
                   ELSE None>>
  IN /\ exit # "unreachable"
     /\ stage = "running" =>
          /\ \E i \in 1 .. 4 :
               /\ password = secrets[i] /\ NonEmpty(password)
               /\ \A j \in 1 .. 4 : NonEmpty(secrets[j]) => j = i
          /\ HasApi /\ token = None => \A s \in Slots : Declared[s] = None
          /\ doc.network.keepalive_interval > 0
          /\ doc.network.keepalive_missed_limit > 0
          /\ ToBytes3(doc.peer.src_id) = doc.peer.src_id
          /\ ToBytes3(doc.dmr.talkgroup) = doc.dmr.talkgroup
          /\ ConfigPayload(doc.peer) = CONFIG_STRING_LEN
          /\ vocoder.encode # None /\ vocoder.decode # None
          /\ vocoder.inGain = "in" /\ vocoder.outGain = "out"
          /\ doc.vocoder.backend \notin {"neural"} =>
               {vocoder.encode, vocoder.decode} = {doc.vocoder.backend}
          /\ doc.vocoder.backend = "neural"
               /\ doc.vocoder.neural.encoder_backend # "neural" =>
                  vocoder.encode = doc.vocoder.neural.encoder_backend

\* Only a signal or a failed vocoder brings the process down: a branch that has
\* nothing to do parks instead of ending, so that it does not cancel the others
\* at startup (main.rs:558).
Causes == {"signal", "vocoder"}
StaysUp == (cancel => cause \in Causes) /\ (exit = "ok" => cause \in Causes)

\* Whatever the operator did between the list and a request, and whichever
\* requests fail, a request of the reconciliation never takes a slot further
\* from what the config declares, and a slot it leaves out is never touched
\* (brandmeister_provision.rs:10-14).
Astray(s, held) == (held \ Declared[s]) \cup (Declared[s] \ held)
NeverWorse ==
  [][edits' = edits =>
       \A s \in Slots :
         IF ~HasApi \/ Declared[s] = None THEN statics'[s] = statics[s]
         ELSE Astray(s, statics'[s]) \subseteq Astray(s, statics[s])]_vars

\* A bridge that reconciles ends up with the declared statics, whatever failed
\* or was edited on the way (brandmeister_provision.rs:46-48).
Converges ==
  <>[](\/ cancel \/ stage = "exited" \/ ~Reconciles
       \/ token \in {None, "unprintable"}
       \/ \A s \in Slots : Declared[s] # None => statics[s] = Declared[s])

\* A bridge that refreshes ends up answering from the file as it is, if there
\* is one with anything in it, whatever was read of it before.  (One without is
\* left out: the comments would have the prior table stay, main.rs:187-190, but
\* it does not.)
TableCatchesUp ==
  <>[](cancel \/ stage = "exited" \/ ~Refreshes
         \/ file = None \/ FromReader(file) = {} \/ table = FromReader(file))

\* The bridge gets to run or gives up, whatever the API does; a signal at any
\* time ends it, with a run or a reload under way or without.
Settles == <>(stage \in {"running", "exited"}) /\ (cancel ~> stage = "exited")

=============================================================================
