----------------------------- MODULE VendorRun -----------------------------
(***************************************************************************)
(* What `run`, `login`, `logout` and a credential check do with the        *)
(* credential of one profile once their locks are held                     *)
(* (src/src/runner.rs, src/src/commands.rs, SecretManager of               *)
(* src/src/secret.rs).  A static credential lives in the operating         *)
(* system's keyring; a Codex login also has a cache that only the vendor's *)
(* own commands write.  Every command works through child processes.       *)
(* A child that the wrapper waits for can outlive it when the wrapper is   *)
(* killed: the locks go with the wrapper, the child stays.                 *)
(*                                                                         *)
(* The fence, the currency of the configuration and the lock order are in  *)
(* ProfileFence; here a lock is held or busy and those checks may refuse.  *)
(* The keyring entry is taken to be this profile's alone: two profiles may *)
(* be given one entry (--secret-ref), and their locks differ.              *)
(***************************************************************************)
EXTENDS Naturals, FiniteSets, TLC

CONSTANTS Procs,      \* ctxlane processes
          Secrets,    \* credentials an operator may enter
          MaxKills    \* bound: wrappers killed
ASSUME KillsAssumption == MaxKills \in Nat

ClaudeStatic == {"claude_token", "claude_key"}
CodexStatic == {"codex_key", "codex_token"}
Wif == {"claude_wif", "codex_wif"}
Auths == ClaudeStatic \union CodexStatic \union Wif \union {"codex_oauth"}
Codex == CodexStatic \union {"codex_oauth", "codex_wif"}
\* Profile::requires_static_secret
StaticSecret == ClaudeStatic \union CodexStatic

NoSecret == "no_secret"
Oauth == "oauth"
Creds == Secrets \union {NoSecret}
ASSUME SecretsAssumption == NoSecret \notin Secrets /\ Oauth \notin Secrets

Commands == {"run", "login", "logout", "check"}

\* Children whose standard streams are inherited or who get the secret on
\* standard input are waited for without a limit and get the wrapper's
\* signals; a preflight has a deadline.  "status" is waited for only, of
\* "route" the output is read too.
Foreground == {"main", "static_login", "oauth_login", "logout", "setup"}
Preflights == {"route", "status"}
NoChild == [job |-> "none", secret |-> NoSecret, alive |-> FALSE, code |-> 0,
            signalled |-> FALSE]

VARIABLES auth,     \* how the profile authenticates
          key,      \* the keyring entry of the profile
          cache,    \* the vendor's login state in the profile's directory
          holder,   \* the process that holds the resource lock
          proc,     \* per process: the command and how far it is
          child,    \* per process: its vendor child, until it is reaped
          watch,    \* per process: what a preflight has observed so far
          sig,      \* per process: a signal on its way to the child
          orphans,  \* children of killed wrappers that may still write `cache`
          strayed,  \* ghost: the last write of `cache` was an orphan's
          kills
vars == <<auth, key, cache, holder, proc, child, watch, sig, orphans, strayed, kills>>
outside == <<orphans, strayed, kills>>

NoProc == "nobody"
ASSUME ProcsAssumption == NoProc \notin Procs
Idle == [pc |-> "idle", cmd |-> "none", nonint |-> FALSE, fresh |-> FALSE,
         generate |-> FALSE, secret |-> NoSecret, consent |-> FALSE,
         ok |-> FALSE]
NoWatch == [job |-> "none", exited |-> FALSE, code |-> 0, output |-> "none", late |-> FALSE]

TypeOK ==
    /\ auth \in Auths /\ key \in Creds /\ cache \in Creds \union {Oauth}
    /\ holder \in Procs \union {NoProc}
    /\ \A p \in Procs :
        /\ proc[p].cmd \in Commands \union {"none"}
        /\ proc[p].secret \in Creds
        /\ child[p].job \in Foreground \union Preflights \union {"none"}
        /\ sig[p] \in {"none", "pending"}
    /\ kills \in 0..MaxKills

Init == /\ auth \in Auths
        /\ key = NoSecret /\ cache = NoSecret
        /\ holder = NoProc
        /\ proc = [p \in Procs |-> Idle]
        /\ child = [p \in Procs |-> NoChild]
        /\ watch = [p \in Procs |-> NoWatch]
        /\ sig = [p \in Procs |-> "none"]
        /\ orphans = {} /\ strayed = FALSE /\ kills = 0
-----------------------------------------------------------------------------
(***************************************************************************)
(* Starting and ending a command.                                          *)
(***************************************************************************)
Goto(p, pc) == proc' = [proc EXCEPT ![p].pc = pc]

\* A command returns.  Its locks go when the last of it is dropped.
End(p, result) == proc' = [proc EXCEPT ![p].pc = "done", ![p].ok = result = "ok"]
Leave(p) ==
    /\ proc[p].pc = "done"
    /\ proc' = [proc EXCEPT ![p] = Idle]
    /\ holder' = NoProc
    /\ UNCHANGED <<auth, key, cache, child, watch, sig, outside>>

\* acquire_ordered_profile_locks: every one of these commands takes the
\* resource lock exclusively; when it is taken the command fails at once,
\* having done nothing.
Begin(p) ==
    /\ proc[p].pc = "idle" /\ holder = NoProc
    /\ holder' = p
    /\ \E cmd \in Commands, nonint, generate \in BOOLEAN :
        /\ generate => cmd = "login" /\ auth = "claude_token"
        /\ proc' = [proc EXCEPT ![p] = [Idle EXCEPT !.pc = "start", !.cmd = cmd,
                                          !.nonint = nonint, !.generate = generate]]
    /\ UNCHANGED <<auth, key, cache, child, watch, sig, outside>>

\* A guided login: the profile has just been made by this process, in a
\* transaction of its own, under a new reference with nothing stored.
Create(p) ==
    /\ proc[p].pc = "idle" /\ auth = "claude_token" /\ key = NoSecret
    /\ proc' = [proc EXCEPT ![p] = [Idle EXCEPT !.pc = "lock", !.cmd = "login",
                                      !.fresh = TRUE, !.generate = TRUE]]
    /\ UNCHANGED <<auth, key, cache, holder, child, watch, sig, outside>>

Lock(p) ==
    /\ proc[p].pc = "lock" /\ holder = NoProc
    /\ holder' = p
    /\ Goto(p, "start")
    /\ UNCHANGED <<auth, key, cache, child, watch, sig, outside>>

\* What a command finds besides its profile: the workflow it runs in, its
\* forwarded arguments, the settings files of the vendor's directory
\* ("profile_...") and of the repository.
Situations == [pr : BOOLEAN, ci : BOOLEAN, trusted : BOOLEAN,
               args : {"plain", "bare", "blocked"},
               settings : {"plain", "profile_routing", "profile_commands",
                           "project_commands"}]

\* enforce_pull_request_static_secret_policy: long-lived credentials stay
\* out of pull-request workflows.
PullRequestAllows(s) == ~ (s.pr /\ auth \in StaticSecret \union {"codex_oauth"})
\* enforce_runner_policy: subscription and cached logins need
\* --trusted-runner in automation.
RunnerAllows(s, nonint) ==
    /\ PullRequestAllows(s)
    /\ auth \in {"claude_token", "codex_oauth", "codex_token"} /\ (s.ci \/ nonint)
         => s.trusted
\* validate_forwarded_args: `bare` stands for the options that bypass the
\* selected mechanism unless the profile has an API key.
ArgsAllowed(s) ==
    /\ s.args # "blocked"
    /\ s.args = "bare" => auth \notin {"claude_token", "claude_wif"}
\* validate_claude_settings: a credential or endpoint is refused anywhere, a
\* command only where the repository supplies it.  (Codex's the same.)
ClaudeSettingsAllowed(s) == s.settings \in {"plain", "profile_commands"}
CodexSettingsAllowed(s) == s.settings \in {"plain", "profile_commands"}
SettingsAllowed(s) == IF auth \in Codex THEN CodexSettingsAllowed(s)
                                        ELSE ClaudeSettingsAllowed(s)
-----------------------------------------------------------------------------
(***************************************************************************)
(* Children.  What a child does to the vendor's state when it ends.        *)
(***************************************************************************)
Spawn(p, job, secret, pc) ==
    /\ child' = [child EXCEPT ![p] = [NoChild EXCEPT !.job = job, !.secret = secret,
                                                     !.alive = TRUE]]
    /\ watch' = [watch EXCEPT ![p] = [NoWatch EXCEPT !.job = job]]
    /\ proc' = [proc EXCEPT ![p].pc = pc]

CacheAfter(job, secret, code) ==
    IF code # 0 THEN cache
    ELSE CASE job = "static_login" -> secret
           [] job = "oauth_login" -> Oauth
           [] job = "logout" -> NoSecret
           [] OTHER -> cache

\* How a vendor process ends, by itself or on a signal: a login that was
\* never given its credential cannot succeed.
EndsWith(c, code) == code = 0 => /\ ~c.signalled
                                 /\ c.job = "static_login" => c.secret # NoSecret
Writes(c, code) == code = 0 /\ c.job \in {"static_login", "oauth_login", "logout"}

ChildEnds(p) ==
    /\ child[p].alive
    /\ \E code \in {0, 1} :
        /\ EndsWith(child[p], code)
        /\ child' = [child EXCEPT ![p].alive = FALSE, ![p].code = code]
        /\ cache' = CacheAfter(child[p].job, child[p].secret, code)
        /\ strayed' = (strayed /\ ~Writes(child[p], code))
    /\ UNCHANGED <<auth, key, holder, proc, watch, sig, orphans, kills>>

OrphanEnds ==
    \E c \in orphans, code \in {0, 1} :
        /\ EndsWith(c, code)
        /\ orphans' = orphans \ {c}
        /\ cache' = CacheAfter(c.job, c.secret, code)
        /\ strayed' = (strayed \/ Writes(c, code))
        /\ UNCHANGED <<auth, key, holder, proc, child, watch, sig, kills>>

\* Child::wait, or terminate_and_reap after kill: nothing is left of it.
Reap(p) == child' = [child EXCEPT ![p] = NoChild]

\* A command fails: its child is killed and reaped if its exit has not been
\* observed yet.
Abandon(p) == /\ Reap(p)
              /\ sig' = [sig EXCEPT ![p] = "none"]
              /\ watch' = [watch EXCEPT ![p] = NoWatch]
              /\ End(p, "error")
              /\ UNCHANGED <<auth, key, cache, holder, outside>>
\* A command returns before it has a child.
Return(p, result) == /\ End(p, result)
                     /\ UNCHANGED <<auth, key, cache, holder, child, watch, sig, outside>>

Start(p, job, secret, pc) ==
    /\ Spawn(p, job, secret, pc)
    /\ UNCHANGED <<auth, key, cache, holder, sig, outside>>
-----------------------------------------------------------------------------
(***************************************************************************)
(* Preflights: wait_for_preflight and capture_preflight_stdout.  The       *)
(* reader thread owns the pipe; a descendant of the child may hold it open *)
(* for ever.                                                               *)
(***************************************************************************)
Polling == {"poll_status", "poll_output", "poll_deadline"}
InPreflight(p) == proc[p].pc \in Polling

PollStatus(p) ==
    /\ proc[p].pc = "poll_status"
    /\ \/ /\ ~watch[p].exited /\ ~child[p].alive        \* Ok(Some(status))
          /\ watch' = [watch EXCEPT ![p].exited = TRUE, ![p].code = child[p].code]
          /\ Reap(p)
          /\ Goto(p, IF watch[p].job = "status" THEN "verdict" ELSE "poll_output")
          /\ UNCHANGED <<auth, key, cache, holder, sig, outside>>
       \/ /\ watch[p].exited \/ child[p].alive          \* known, or Ok(None)
          /\ Goto(p, IF watch[p].job = "status" THEN "poll_deadline" ELSE "poll_output")
          /\ UNCHANGED <<auth, key, cache, holder, child, watch, sig, outside>>

\* Err(source) of try_wait.
TryWaitFails(p) == /\ proc[p].pc = "poll_status" /\ ~watch[p].exited
                   /\ Abandon(p)

\* The reader's one message: what it read, too much of it, an error, or its
\* end without a message.
Reader(p) ==
    /\ InPreflight(p) /\ watch[p].job # "status" /\ watch[p].output = "none"
    /\ \E o \in {"bytes", "oversize", "failed"} :
        watch' = [watch EXCEPT ![p].output = o]
    /\ UNCHANGED <<auth, key, cache, holder, proc, child, sig, outside>>

\* A mutant: the output of a child is received without a limit.
PollOutputBlocking(p) ==
    /\ proc[p].pc = "poll_output" /\ watch[p].output # "none"
    /\ Goto(p, IF watch[p].exited THEN "verdict" ELSE "poll_deadline")
    /\ UNCHANGED <<auth, key, cache, holder, child, watch, sig, outside>>

PollOutput(p) ==
    /\ proc[p].pc = "poll_output"
    /\ \/ /\ watch[p].output \in {"oversize", "failed"}
          /\ Abandon(p)
       \/ /\ watch[p].output \in {"none", "bytes"}
          /\ Goto(p, IF watch[p].exited /\ watch[p].output = "bytes" THEN "verdict"
                                                                   ELSE "poll_deadline")
          /\ UNCHANGED <<auth, key, cache, holder, child, watch, sig, outside>>

Late(p) == /\ InPreflight(p) /\ ~watch[p].late
           /\ watch' = [watch EXCEPT ![p].late = TRUE]
           /\ UNCHANGED <<auth, key, cache, holder, proc, child, sig, outside>>

\* A mutant: a late preflight is given up without killing its child.
DeadlineLeavesChild(p) ==
    /\ proc[p].pc = "poll_deadline"
    /\ IF watch[p].late THEN End(p, "error") ELSE Goto(p, "poll_status")
    /\ UNCHANGED <<auth, key, cache, holder, child, watch, sig, outside>>

PollDeadline(p) ==
    /\ proc[p].pc = "poll_deadline"
    /\ \/ watch[p].late /\ Abandon(p)
       \/ /\ ~watch[p].late
          /\ Goto(p, "poll_status")
          /\ UNCHANGED <<auth, key, cache, holder, child, watch, sig, outside>>

\* What the command makes of a preflight: its exit code and, for captured
\* output, whether it says what it should.
Verdict(p) ==
    /\ proc[p].pc = "verdict"
    /\ watch' = [watch EXCEPT ![p] = NoWatch]
    /\ \E good \in BOOLEAN :
        IF watch[p].code = 0 /\ good /\ proc[p].cmd = "run"
        THEN Goto(p, "main")
        ELSE End(p, IF watch[p].code = 0 /\ good THEN "ok" ELSE "error")
    /\ UNCHANGED <<auth, key, cache, holder, child, sig, outside>>
-----------------------------------------------------------------------------
(***************************************************************************)
(* spawn_inherited, and SignalForwarder::wait.                             *)
(***************************************************************************)
\* What follows a foreground child that ended with code 0.
AfterSuccess(p) ==
    CASE child[p].job = "static_login" /\ proc[p].cmd = "run" -> "main"
      [] child[p].job = "logout" -> "delete"
      [] child[p].job = "setup" -> "prompt"
      [] OTHER -> "return"

\* A mutant: the exit code of a vendor login is not looked at.
WaitIgnoringCode(p) ==
    /\ proc[p].pc = "wait" /\ ~child[p].alive
    /\ Reap(p)
    /\ sig' = [sig EXCEPT ![p] = "none"]
    /\ IF AfterSuccess(p) # "return" THEN Goto(p, AfterSuccess(p)) ELSE End(p, "ok")
    /\ UNCHANGED <<auth, key, cache, holder, watch, outside>>

\* child.wait() blocks, without a limit, until the child has ended.
Wait(p) ==
    /\ proc[p].pc = "wait" /\ ~child[p].alive
    /\ Reap(p)
    /\ sig' = [sig EXCEPT ![p] = "none"]
    /\ IF child[p].code = 0 /\ AfterSuccess(p) # "return"
       THEN Goto(p, AfterSuccess(p))
       ELSE End(p, IF child[p].code = 0 THEN "ok" ELSE "code")
    /\ UNCHANGED <<auth, key, cache, holder, watch, outside>>

\* ... or fails.
WaitFails(p) == proc[p].pc = "wait" /\ Abandon(p)

\* A mutant: a signal is taken from the iterator and goes nowhere.
ForwardNothing(p) ==
    /\ proc[p].pc = "wait" /\ sig[p] = "pending" /\ child[p].alive
    /\ sig' = [sig EXCEPT ![p] = "none"]
    /\ UNCHANGED <<auth, key, cache, holder, proc, child, watch, outside>>

\* The relay thread hands a signal on to the child.
Forward(p) ==
    /\ proc[p].pc = "wait" /\ sig[p] = "pending" /\ child[p].alive
    /\ child' = [child EXCEPT ![p].signalled = TRUE]
    /\ sig' = [sig EXCEPT ![p] = "none"]
    /\ UNCHANGED <<auth, key, cache, holder, proc, watch, outside>>

\* SIGINT, SIGTERM or SIGHUP arrives while a forwarder is registered.
Signal(p) ==
    /\ proc[p].pc \in {"pipe", "wait"} /\ sig[p] = "none" /\ ~child[p].signalled
    /\ sig' = [sig EXCEPT ![p] = "pending"]
    /\ UNCHANGED <<auth, key, cache, holder, proc, child, watch, outside>>
-----------------------------------------------------------------------------
(***************************************************************************)
(* SecretManager and the two prompts.                                      *)
(***************************************************************************)
\* The credential is read for a child; not without interaction.
ReadKey(p) ==
    /\ proc[p].pc = "read_key"
    /\ \/ /\ ~proc[p].nonint /\ key # NoSecret
          /\ proc' = [proc EXCEPT ![p].secret = key,
                                  ![p].pc = IF auth \in CodexStatic THEN "static_login"
                                                                    ELSE "route"]
          /\ UNCHANGED <<auth, key, cache, holder, child, watch, sig, outside>>
       \/ Return(p, "error")

\* confirm_secret_replacement: asks when something is stored, unless the
\* reference is new.
Confirm(p) ==
    /\ proc[p].pc = "confirm"
    /\ \/ /\ proc' = [proc EXCEPT ![p].pc = IF proc[p].generate THEN "setup" ELSE "prompt",
                                  ![p].consent = ~proc[p].fresh /\ key # NoSecret]
          /\ UNCHANGED <<auth, key, cache, holder, child, watch, sig, outside>>
       \/ ~proc[p].fresh /\ Return(p, "error")

\* prompt_claude_setup_token and prompt_secret (SetupTokenPrompt).
Prompt(p) ==
    /\ proc[p].pc = "prompt"
    /\ \/ /\ \E s \in Secrets : proc' = [proc EXCEPT ![p].secret = s, ![p].pc = "recheck"]
          /\ UNCHANGED <<auth, key, cache, holder, child, watch, sig, outside>>
       \/ Return(p, "error")

\* A mutant: what was found when the profile was made still counts.
RecheckNothing(p) ==
    /\ proc[p].pc = "recheck"
    /\ Goto(p, "store")
    /\ UNCHANGED <<auth, key, cache, holder, child, watch, sig, outside>>

\* A new reference may have been filled since the profile was made.
Recheck(p) ==
    /\ proc[p].pc = "recheck"
    /\ \/ /\ proc' = [proc EXCEPT ![p].pc = "store",
                                  ![p].consent = @ \/ (proc[p].fresh /\ key # NoSecret)]
          /\ UNCHANGED <<auth, key, cache, holder, child, watch, sig, outside>>
       \/ proc[p].fresh /\ Return(p, "error")

\* SecretManager::put.  After an error the keyring may hold either.
Store(p) ==
    /\ proc[p].pc = "store"
    /\ \/ /\ key' = proc[p].secret
          /\ IF auth \in CodexStatic
             THEN Goto(p, "static_login")
             ELSE End(p, "ok")
       \/ /\ key' \in {key, proc[p].secret}
          /\ End(p, "error")
    /\ UNCHANGED <<auth, cache, holder, child, watch, sig, outside>>

\* SecretManager::delete at the end of a logout; NoEntry is no error.
Delete(p) ==
    /\ proc[p].pc = "delete"
    /\ \/ /\ key' = IF auth \in StaticSecret THEN NoSecret ELSE key
          /\ End(p, "ok")
       \/ /\ auth \in StaticSecret
          /\ UNCHANGED key
          /\ End(p, "error")
    /\ UNCHANGED <<auth, cache, holder, child, watch, sig, outside>>
-----------------------------------------------------------------------------
(***************************************************************************)
(* The commands.                                                           *)
(***************************************************************************)
\* The fence, the currency of the profile, the vendor binary and the file
\* system may refuse any command.
Refused(p) == proc[p].pc = "start" /\ Return(p, "error")

Continue(p, pc) ==
    /\ Goto(p, pc)
    /\ UNCHANGED <<auth, key, cache, holder, child, watch, sig, outside>>

\* codex_login_status, login_codex and logout_codex.
SpawnStatus(p) == Start(p, "status", NoSecret, "poll_status")
SpawnOauth(p) == Start(p, "oauth_login", NoSecret, "wait")
SpawnLogout(p) == Start(p, "logout", NoSecret, "wait")

\* run_profile up to the credential.
StartRun(p) ==
    /\ proc[p].pc = "start" /\ proc[p].cmd = "run"
    /\ \E s \in Situations :
        IF auth = "codex_wif" \/ ~SettingsAllowed(s) \/ ~ArgsAllowed(s)
                              \/ ~RunnerAllows(s, proc[p].nonint)
        THEN Return(p, "error")
        ELSE CASE auth = "codex_oauth" /\ proc[p].nonint ->
                    SpawnStatus(p)
               [] auth \in StaticSecret -> Continue(p, "read_key")
               [] OTHER -> Continue(p, "main")

\* The arms of execute_login: a static credential is stored, a cached login
\* is the vendor's own, WIF has nothing to log in.
LoginFor(p) ==
    CASE auth \in StaticSecret -> Continue(p, "confirm")
      [] auth = "codex_oauth" -> SpawnOauth(p)
      [] auth = "claude_wif" -> Return(p, "ok")

StartLogin(p) ==
    /\ proc[p].pc = "start" /\ proc[p].cmd = "login"
    /\ \E s \in Situations :
        IF \/ auth = "codex_wif" \/ ~RunnerAllows(s, proc[p].nonint)
           \/ auth \in Codex /\ ~SettingsAllowed(s)
           \/ auth # "claude_wif" /\ proc[p].nonint
        THEN Return(p, "error")
        ELSE LoginFor(p)

\* A mutant: a logout of Codex forgets the vendor's own cache.
LogoutKeyringOnly(p) ==
    /\ proc[p].pc = "start" /\ proc[p].cmd = "logout"
    /\ \E s \in Situations :
        IF auth \in Wif \/ (auth \in StaticSecret /\ proc[p].nonint)
           \/ (auth \in Codex /\ ~SettingsAllowed(s))
        THEN Return(p, "error")
        ELSE Continue(p, "delete")

\* execute_logout: the vendor's cache first, then the keyring.
StartLogout(p) ==
    /\ proc[p].pc = "start" /\ proc[p].cmd = "logout"
    /\ \E s \in Situations :
        IF auth \in Wif \/ (auth \in StaticSecret /\ proc[p].nonint)
           \/ (auth \in Codex /\ ~SettingsAllowed(s))
        THEN Return(p, "error")
        ELSE IF auth \in Codex THEN SpawnLogout(p)
                               ELSE Continue(p, "delete")

\* credential_state.
StartCheck(p) ==
    /\ proc[p].pc = "start" /\ proc[p].cmd = "check"
    /\ \E s \in Situations :
        IF ~PullRequestAllows(s) \/ (auth \in StaticSecret /\ proc[p].nonint)
           \/ (auth \in {"codex_oauth", "codex_token"} /\ ~SettingsAllowed(s))
        THEN Return(p, "error")
        ELSE CASE auth \in ClaudeStatic -> Continue(p, "read_key")
               [] auth = "codex_oauth" \/ (auth = "codex_token" /\ key # NoSecret) ->
                    SpawnStatus(p)
               [] OTHER -> Return(p, "ok")

\* validate_claude_local_auth_route: the secret is in the child's environment.
SpawnRoute(p) ==
    /\ proc[p].pc = "route"
    /\ \/ Start(p, "route", proc[p].secret, "poll_status")
       \/ Return(p, "error")

\* generate_claude_setup_token.
SpawnSetup(p) ==
    /\ proc[p].pc = "setup"
    /\ \/ Start(p, "setup", NoSecret, "wait")
       \/ Return(p, "error")

\* codex_static_login: the secret goes through a pipe.
SpawnStaticLogin(p) ==
    /\ proc[p].pc = "static_login"
    /\ \/ Start(p, "static_login", NoSecret, "pipe")
       \/ Return(p, "error")

WriteSecret(p) ==
    /\ proc[p].pc = "pipe"
    /\ \/ /\ child[p].alive
          /\ child' = [child EXCEPT ![p].secret = proc[p].secret]
          /\ Goto(p, "wait")
          /\ UNCHANGED <<auth, key, cache, holder, watch, sig, outside>>
       \/ Abandon(p)

\* apply_profile_environment.
SecretInEnvironment(p) == IF auth \in ClaudeStatic THEN proc[p].secret ELSE NoSecret

\* The child of the run.  Only Claude gets the credential itself, in its
\* environment; Codex finds it in its cache.  The wrapper drops its copy.
SpawnMain(p) ==
    /\ proc[p].pc = "main"
    /\ \/ /\ child' = [child EXCEPT ![p] = [NoChild EXCEPT
                !.job = "main", !.alive = TRUE,
                !.secret = SecretInEnvironment(p)]]
          /\ proc' = [proc EXCEPT ![p].pc = "wait", ![p].secret = NoSecret]
          /\ UNCHANGED <<auth, key, cache, holder, watch, sig, outside>>
       \/ Return(p, "error")

\* SIGKILL, or a signal while nothing handles it: the locks are released, a
\* child that runs is left to itself.
Kill(p) ==
    /\ proc[p].pc # "idle" /\ kills < MaxKills
    /\ kills' = kills + 1
    /\ proc' = [proc EXCEPT ![p] = Idle]
    /\ holder' = IF holder = p THEN NoProc ELSE holder
    /\ orphans' = orphans \union
         {c \in {child[p]} : c.alive /\ c.job \in {"static_login", "oauth_login", "logout"}}
    /\ child' = [child EXCEPT ![p] = NoChild]
    /\ watch' = [watch EXCEPT ![p] = NoWatch]
    /\ sig' = [sig EXCEPT ![p] = "none"]
    /\ UNCHANGED <<auth, key, cache, strayed>>
-----------------------------------------------------------------------------
Preflight(p) == PollStatus(p) \/ TryWaitFails(p) \/ PollOutput(p) \/ PollDeadline(p) \/ Late(p)
Credential(p) == ReadKey(p) \/ Confirm(p) \/ Prompt(p) \/ Recheck(p) \/ Store(p) \/ Delete(p)
Command(p) == \/ Refused(p) \/ StartRun(p) \/ StartLogin(p) \/ StartLogout(p) \/ StartCheck(p)
              \/ SpawnRoute(p) \/ SpawnSetup(p)
              \/ SpawnStaticLogin(p) \/ WriteSecret(p) \/ SpawnMain(p)
Next == \/ \E p \in Procs :
            \/ Begin(p) \/ Create(p) \/ Lock(p) \/ Leave(p) \/ Command(p) \/ Credential(p) \/ Preflight(p)
            \/ Verdict(p) \/ Reader(p) \/ Wait(p) \/ WaitFails(p) \/ Forward(p)
            \/ Signal(p) \/ ChildEnds(p) \/ Kill(p)
        \/ OrphanEnds
Spec == Init /\ [][Next]_vars

\* The wrapper's loops run, time passes, the relay thread gets its turn and
\* a vendor process that got a signal ends.  Nothing is assumed of a vendor
\* process otherwise, nor of the pipe of a preflight, and no failure of
\* try_wait or wait is ever due.
FairSpec == /\ Spec
            /\ \A p \in Procs : /\ WF_vars(PollStatus(p)) /\ WF_vars(PollOutput(p))
                                /\ WF_vars(PollDeadline(p)) /\ WF_vars(Late(p))
                                /\ WF_vars(Forward(p)) /\ WF_vars(Wait(p))
                                /\ WF_vars(child[p].signalled /\ ChildEnds(p))
-----------------------------------------------------------------------------
(***************************************************************************)
(* Properties.                                                             *)
(***************************************************************************)
\* A stored credential is replaced by another only by a login that asked
\* for this one: neither two logins nor the gap between creating a profile
\* and logging in to it can overwrite what another process stored.  (Of two
\* profiles given the same keyring entry this says nothing.)
ReplacementConsented ==
    [][(key # NoSecret /\ key' \notin {key, NoSecret})
         => \E p \in Procs : proc[p].pc = "store" /\ proc[p].consent]_vars

\* The vendor process of a run works with the credential that is stored:
\* Claude's is in its environment, Codex has been logged in with it by this
\* run.  The exception is a login or logout left by a killed wrapper.
MainHasStored ==
    \A p \in Procs : child[p].job = "main" =>
        /\ auth \in ClaudeStatic => child[p].secret = key /\ key # NoSecret
        /\ auth \in CodexStatic => (cache = key /\ key # NoSecret) \/ strayed

\* A login that reports success has left the entered credential behind and,
\* for Codex, logged in with it; a logout that does has left neither.  The
\* same exception.
ResultsTrue ==
    \A p \in Procs : proc[p].pc = "done" /\ proc[p].ok =>
        /\ proc[p].cmd = "login" /\ auth \in StaticSecret =>
              /\ key = proc[p].secret /\ key # NoSecret
              /\ auth \in CodexStatic => cache = key \/ strayed
        /\ proc[p].cmd = "logout" =>
              /\ key = NoSecret
              /\ auth \in Codex => cache = NoSecret \/ strayed

\* A command that returned left no vendor process running and none
\* unreaped, however its preflight or wait went wrong.
ChildrenReaped == \A p \in Procs : proc[p].pc \in {"done", "idle"} => child[p] = NoChild

\* A preflight ends although the child never exits or a descendant of it
\* holds the pipe (wait_for_preflight and capture_preflight_stdout).
PreflightsEnd == \A p \in Procs : InPreflight(p) ~> ~InPreflight(p)

\* A signal that arrives while a foreground child is waited for ends the wait:
\* it reaches the child, although the wait itself has no limit
\* (SignalForwarder::wait).
SignalEndsWait ==
    \A p \in Procs : (proc[p].pc = "wait" /\ sig[p] = "pending") ~> proc[p].pc # "wait"
=============================================================================
