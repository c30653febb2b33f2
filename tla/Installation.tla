---------------------------- MODULE Installation ----------------------------
(***************************************************************************)
(* The first start of an installation and its language-model settings.     *)
(*                                                                         *)
(* POST /setup/init probes the model, inserts a workspace with its         *)
(* administrator and marks the row of the table installation in one        *)
(* transaction, and then opens the gate: a flag in the memory of the       *)
(* process.  Nothing asks whether another request has done so before.      *)
(* Administrators later change the settings of their workspace: the        *)
(* request reads the row, probes, and writes what it decided from what it  *)
(* had read.  The client that talks to the model is built at boot.         *)
(*                                                                         *)
(* Names of models, languages, e-mail addresses and passwords are left     *)
(* out.  A secret is what the field "key" of a form holds: the key of a    *)
(* cloud provider, the address of an Ollama server.                        *)
(***************************************************************************)
EXTENDS Naturals, Sequences

CONSTANTS
  Providers,  \* the providers anyone chooses
  Keys,       \* API keys
  Urls,       \* addresses of model servers
  Inits,      \* requests to POST /setup/init
  Patches,    \* requests to PATCH /admin/workspace/llm
  MaxSpaces   \* bound: workspaces ever inserted

ASSUME ProvidersAssumption ==
  {"openai"} \subseteq Providers /\ Providers \subseteq {"openai", "anthropic", "ollama", "test"}
ASSUME MaxSpacesAssumption == MaxSpaces \in Nat \ {0}

VARIABLES
  inst,      \* installation.setup_complete, in the table
  spaces,    \* the settings of the workspaces, in order of creation
  flag,      \* AppState.setup_complete
  client,    \* the settings the running process talks to the model with
  init,      \* the requests of the wizard
  patch,     \* the requests of the administrators
  wizard,    \* the setup page of a browser
  accepted,  \* history: secrets and addresses the probe of a request accepted
  halfway    \* history: since boot, a request was dropped before opening the gate

setupVars == <<inst, spaces, flag, client, init, patch, wizard, accepted, halfway>>

-----------------------------------------------------------------------------
(* Commands, settings, probes *)

None    == "none"
Secrets == Keys \union Urls

Command == [provider : Providers, secret : Secrets \union {None},
            url : Urls \union {None}]
Stub    == [provider |-> "test", key |-> None, url |-> None]

Typed(cmd) == {cmd.secret, cmd.url} \ {None}

\* What the service at the other end may answer; no answer is a refusal.
ProbeAnswers(cmd) ==
  CASE cmd.provider = "test"      -> {TRUE}
    [] cmd.provider = "ollama"    -> IF cmd.secret \in Urls THEN BOOLEAN ELSE {FALSE}
    [] cmd.provider = "anthropic" -> IF cmd.secret = None THEN {FALSE} ELSE BOOLEAN
    [] cmd.provider = "openai"    -> BOOLEAN

\* POST /setup/probe: a refusal is an answer like any other.
ProbeResult(cmd) == {IF ok THEN "ok" ELSE "bad" : ok \in ProbeAnswers(cmd)}

\* setup_gate: all but the paths of the setup wait until the gate is open.
Lets(path) == flag \/ path = "setup"

\* The openai settings no request may ask for, unless a key is stored already.
NoWayIn(cmd) == cmd.provider = "openai" /\ cmd.secret = None /\ cmd.url = None

FirstSettings(cmd) ==
  [provider |-> cmd.provider,
   key |-> IF cmd.provider \in {"openai", "anthropic"} THEN cmd.secret ELSE None,
   url |-> CASE cmd.provider = "ollama" -> cmd.secret
             [] cmd.provider = "openai" -> cmd.url
             [] OTHER                   -> None]

\* What the use case decides to write, from the row it has read.
NewSettings(cmd, old) ==
  [provider |-> cmd.provider,
   key |-> CASE cmd.provider = "anthropic" -> cmd.secret
             [] cmd.provider = "openai"    ->
                  IF cmd.secret = None /\ cmd.url = None THEN old.key ELSE cmd.secret
             [] OTHER                      -> None,
   url |-> CASE cmd.provider = "ollama" ->
                  IF cmd.secret = None THEN old.url ELSE cmd.secret
             [] cmd.provider = "openai" -> cmd.url
             [] OTHER                   -> None]

\* The UPDATE: COALESCE keeps the key wherever the use case decided on none.
Coalesce(new, row) == [new EXCEPT !.key = IF @ = None THEN row.key ELSE @]

-----------------------------------------------------------------------------
(* The setup page *)

Blank == [provider |-> "openai", secret |-> None, url |-> None]
NewPage == [step |-> "llm", form |-> Blank, probe |-> "none",
            testing |-> <<>>, loading |-> FALSE]

CanGoNext ==
  CASE wizard.form.provider = "test"      -> TRUE
    [] wizard.form.provider = "openai"    -> ~ NoWayIn(wizard.form)
    [] wizard.form.provider = "anthropic" -> wizard.form.secret # None
    [] wizard.form.provider = "ollama"    -> wizard.form.secret # None
                                             /\ wizard.probe = "ok"

\* handleProviderChange keeps what was typed as the key of the other provider.
ChangeProvider(p) ==
  /\ wizard.step = "llm"
  /\ wizard' = [wizard EXCEPT !.form.provider = p, !.probe = "none",
                  !.form.url = IF p = "openai" THEN @ ELSE None]
  /\ UNCHANGED <<inst, spaces, flag, client, init, patch, accepted, halfway>>

TypeInForm ==
  /\ wizard.step = "llm" /\ wizard.form.provider # "test"
  /\ \/ \E s \in Secrets : wizard' = [wizard EXCEPT !.form.secret = s, !.probe = "none"]
     \/ /\ wizard.form.provider = "openai"
        /\ \E u \in Urls : wizard' = [wizard EXCEPT !.form.url = u, !.probe = "none"]
  /\ UNCHANGED <<inst, spaces, flag, client, init, patch, accepted, halfway>>

TestConnection ==
  /\ wizard.step = "llm" /\ ~ wizard.loading
  /\ wizard.form.provider # "test" /\ Typed(wizard.form) # {}
  /\ wizard' = [wizard EXCEPT !.testing = <<wizard.form>>, !.probe = "none",
                  !.loading = TRUE]
  /\ UNCHANGED <<inst, spaces, flag, client, init, patch, accepted, halfway>>

\* The result is for what the form held then; it is shown for what it holds
\* now, and ends the spinner of whatever the page is waiting for now.
TestAnswered ==
  /\ wizard.testing # <<>>
  /\ Lets("setup")
  /\ \E result \in ProbeResult(wizard.testing[1]) :
       wizard' = [wizard EXCEPT !.testing = <<>>, !.loading = FALSE, !.probe = result]
  /\ UNCHANGED <<inst, spaces, flag, client, init, patch, accepted, halfway>>

Turn ==
  /\ \/ wizard.step = "llm" /\ CanGoNext /\ wizard' = [wizard EXCEPT !.step = "summary"]
     \/ wizard.step = "summary" /\ wizard' = [wizard EXCEPT !.step = "llm"]
  /\ UNCHANGED <<inst, spaces, flag, client, init, patch, accepted, halfway>>

\* handleSubmit; for the test provider a fixed word stands in for the key.
Sent(form) == IF form.provider = "test" THEN [form EXCEPT !.secret = None] ELSE form

Submit(i) ==
  /\ wizard.step = "summary" /\ ~ wizard.loading
  /\ init[i].pc = "idle"
  /\ init' = [init EXCEPT ![i] = [pc |-> "probe", cmd |-> Sent(wizard.form)]]
  /\ wizard' = [wizard EXCEPT !.loading = TRUE]
  /\ UNCHANGED <<inst, spaces, flag, client, patch, accepted, halfway>>

\* Nothing keeps the page from being opened again, even after the setup.
Reopen ==
  /\ wizard' = NewPage
  /\ UNCHANGED <<inst, spaces, flag, client, init, patch, accepted, halfway>>

-----------------------------------------------------------------------------
(* POST /setup/init *)

NoInit == [pc |-> "idle", cmd |-> Blank]

\* InitializeInstallationUseCase, up to the answer of the probe.
ProbeInit(i) ==
  LET cmd == init[i].cmd IN
  /\ init[i].pc = "probe" /\ Lets("setup")
  /\ \/ /\ TRUE \in ProbeAnswers(cmd) /\ ~ NoWayIn(cmd)
        /\ init' = [init EXCEPT ![i].pc = "commit"]
        /\ accepted' = accepted \union Typed(cmd)
        /\ UNCHANGED wizard
     \/ /\ FALSE \in ProbeAnswers(cmd)
        /\ init' = [init EXCEPT ![i] = NoInit]
        /\ wizard' = [wizard EXCEPT !.loading = FALSE]
        /\ UNCHANGED accepted
  /\ UNCHANGED <<inst, spaces, flag, client, patch, halfway>>

InsertWorkspace(new) == spaces' = Append(spaces, new)

MarkComplete == inst' = TRUE

\* One transaction: the workspace, its administrator, the mark.
Commit(i) ==
  /\ init[i].pc = "commit"
  /\ Len(spaces) < MaxSpaces
  /\ InsertWorkspace(FirstSettings(init[i].cmd))
  /\ MarkComplete
  /\ init' = [init EXCEPT ![i].pc = "flip"]
  /\ UNCHANGED <<flag, client, patch, wizard, accepted, halfway>>

\* The handler opens the gate and answers; the browser logs in and leaves.
OpenGate(i) ==
  /\ init[i].pc = "flip"
  /\ flag' = TRUE
  /\ init' = [init EXCEPT ![i] = NoInit]
  /\ wizard' = NewPage
  /\ UNCHANGED <<inst, spaces, client, patch, accepted, halfway>>

\* The browser hangs up: the server drops the handler where it waits.
HangUp(i) ==
  /\ init[i].pc # "idle"
  /\ init' = [init EXCEPT ![i] = NoInit]
  /\ wizard' = [wizard EXCEPT !.loading = FALSE]
  /\ halfway' = (halfway \/ init[i].pc = "flip")
  /\ UNCHANGED <<inst, spaces, flag, client, patch, accepted>>

-----------------------------------------------------------------------------
(* PATCH /admin/workspace/llm *)

NoPatch == [pc |-> "idle", cmd |-> Blank, space |-> 0, new |-> Stub]

\* The handler passes the command on for the row the administrator belongs to;
\* what it writes is fixed before the probe.
Decide(p, cmd, w, old, probed) ==
  patch' = [patch EXCEPT ![p] =
    [pc |-> IF probed # {} THEN "probe" ELSE "write",
     cmd |-> cmd, space |-> w, new |-> NewSettings(cmd, old)]]

\* find_by_id
RowOf(w) == spaces[w]

\* Faulty variant of ReadWorkspace: only a new secret is probed.
ReadAndProbeSecret(p, cmd, w) ==
  /\ Lets("admin") /\ patch[p].pc = "idle"
  /\ ~ (NoWayIn(cmd) /\ RowOf(w).key = None)
  /\ Decide(p, cmd, w, RowOf(w), {cmd.secret} \ {None})
  /\ UNCHANGED <<inst, spaces, flag, client, init, wizard, accepted, halfway>>

\* Faulty variant of ReadWorkspace: nothing asks for a way in.
ReadUnchecked(p, cmd, w) ==
  /\ Lets("admin") /\ patch[p].pc = "idle"
  /\ Decide(p, cmd, w, RowOf(w), Typed(cmd))
  /\ UNCHANGED <<inst, spaces, flag, client, init, wizard, accepted, halfway>>

\* The request reads the row of the administrator's own workspace.
ReadWorkspace(p, cmd, w) ==
  /\ Lets("admin") /\ patch[p].pc = "idle"
  /\ ~ (NoWayIn(cmd) /\ RowOf(w).key = None)
  /\ Decide(p, cmd, w, RowOf(w), Typed(cmd))
  /\ UNCHANGED <<inst, spaces, flag, client, init, wizard, accepted, halfway>>

ProbePatch(p) ==
  /\ patch[p].pc = "probe"
  /\ \/ /\ TRUE \in ProbeAnswers(patch[p].cmd)
        /\ patch' = [patch EXCEPT ![p].pc = "write"]
        /\ accepted' = accepted \union Typed(patch[p].cmd)
     \/ /\ FALSE \in ProbeAnswers(patch[p].cmd)
        /\ patch' = [patch EXCEPT ![p] = NoPatch]
        /\ UNCHANGED accepted
  /\ UNCHANGED <<inst, spaces, flag, client, init, wizard, halfway>>

WriteSettings(p) ==
  /\ patch[p].pc = "write"
  /\ spaces' = [spaces EXCEPT ![patch[p].space] = Coalesce(patch[p].new, @)]
  /\ patch' = [patch EXCEPT ![p] = NoPatch]
  /\ UNCHANGED <<inst, flag, client, init, wizard, accepted, halfway>>

-----------------------------------------------------------------------------
(* The process *)

\* find_singleton: the oldest workspace, as if there were no other.
Singleton == spaces[1]

\* build_llm_clients_from_workspace
BuildClient == IF spaces = <<>> THEN Stub ELSE Singleton

\* Faulty variant of Restart: every start begins with the gate shut.
RestartShut ==
  /\ flag' = FALSE
  /\ client' = BuildClient
  /\ init' = [i \in Inits |-> NoInit]
  /\ patch' = [p \in Patches |-> NoPatch]
  /\ wizard' = [wizard EXCEPT !.loading = wizard.testing # <<>>]
  /\ halfway' = FALSE
  /\ UNCHANGED <<inst, spaces, accepted>>

\* Requests die with the process; the flag is seeded from the table.
Restart ==
  /\ flag' = inst
  /\ client' = BuildClient
  /\ init' = [i \in Inits |-> NoInit]
  /\ patch' = [p \in Patches |-> NoPatch]
  /\ wizard' = [wizard EXCEPT !.loading = wizard.testing # <<>>]
  /\ halfway' = FALSE
  /\ UNCHANGED <<inst, spaces, accepted>>

-----------------------------------------------------------------------------

SetupInit ==
  /\ inst = FALSE /\ spaces = <<>> /\ flag = FALSE /\ client = Stub
  /\ init = [i \in Inits |-> NoInit]
  /\ patch = [p \in Patches |-> NoPatch]
  /\ wizard = NewPage
  /\ accepted = {} /\ halfway = FALSE

\* The commands the form of the settings page can send.
FormCommands ==
  {cmd \in Command :
     /\ cmd.url # None => cmd.provider = "openai"
     /\ cmd.provider = "test" => cmd.secret = None
     /\ cmd.secret \in Urls => cmd.provider = "ollama"
     /\ cmd.secret \in Keys => cmd.provider # "ollama"}

SetupPage ==
  \/ \E p \in Providers : ChangeProvider(p)
  \/ TypeInForm \/ TestConnection \/ TestAnswered \/ Turn \/ Reopen
  \/ \E i \in Inits : Submit(i)

SetupNext ==
  \/ SetupPage
  \/ \E i \in Inits : ProbeInit(i) \/ Commit(i) \/ OpenGate(i) \/ HangUp(i)
  \/ \E p \in Patches :
       \/ \E cmd \in FormCommands, w \in DOMAIN spaces : ReadWorkspace(p, cmd, w)
       \/ ProbePatch(p) \/ WriteSettings(p)
  \/ Restart

SetupSpec == SetupInit /\ [][SetupNext]_setupVars

-----------------------------------------------------------------------------
(* Properties *)

\* "Seeded once at startup from the installation row, flipped once by the setup
\* handler on successful commit" (setup_gate.rs:5): the gate is open only after
\* a commit, and shut after one only while the request that committed is about
\* to open it, or hung up just then and the process has not been started since.
GateFollowsTable ==
  /\ flag => inst
  /\ inst <=> spaces # <<>>
  /\ inst /\ ~ flag => halfway \/ \E i \in Inits : init[i].pc = "flip"

\* "Validates a no-auth endpoint at config time" (update_llm_config.rs:109):
\* every key and address stored, the kept and the coalesced ones included, has
\* been accepted by a probe at some time - whatever a late answer made the
\* setup page believe, and whichever administrators were editing at once.
StoredWereAccepted ==
  \A w \in DOMAIN spaces :
    {spaces[w].key, spaces[w].url} \ {None} \subseteq accepted

\* "Empty means keep the existing encrypted key" (llm-settings-form.tsx:46), to
\* the server as well: a row of openai has a key or an address, so that the
\* client built at the next start has a way in, although a request that left
\* both empty looked for the key before others changed provider and address.
AlwaysAWayIn ==
  \A w \in DOMAIN spaces :
    spaces[w].provider = "openai" => spaces[w].key # None \/ spaces[w].url # None

\* "Empty key + URL set: user intends no auth, wipe stored key"
\* (update_llm_config.rs:94, and the test
\* openai_with_base_url_and_empty_key_persists_url_clears_key).
EmptyKeyClears ==
  [][\A p \in Patches :
       /\ patch[p].pc = "write" /\ patch'[p].pc = "idle" /\ spaces' # spaces
       /\ patch[p].cmd.provider = "openai"
       /\ patch[p].cmd.secret = None /\ patch[p].cmd.url # None
       => spaces'[patch[p].space].key = None]_setupVars
=============================================================================
