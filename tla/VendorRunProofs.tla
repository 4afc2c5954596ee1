--------------------------- MODULE VendorRunProofs ---------------------------
(***************************************************************************)
(* Theorems about VendorRun for any number of processes and credentials.   *)
(***************************************************************************)
EXTENDS VendorRun, TLAPS

-----------------------------------------------------------------------------
(* The inductive invariant.                                                *)

Pcs == {"idle", "lock", "start", "confirm", "setup", "prompt", "recheck",
        "store", "read_key", "route", "static_login", "pipe", "wait", "main",
        "delete", "verdict", "done"} \union Polling
Jobs == Foreground \union Preflights \union {"none"}

ProcType == [pc : Pcs, cmd : Commands \union {"none"}, nonint : BOOLEAN,
             fresh : BOOLEAN, generate : BOOLEAN, secret : Creds,
             consent : BOOLEAN, ok : BOOLEAN]
ChildType == [job : Jobs, secret : Creds, alive : BOOLEAN, code : {0, 1},
              signalled : BOOLEAN]
WatchType == [job : Jobs, exited : BOOLEAN, code : {0, 1},
              output : {"none", "bytes", "oversize", "failed"}, late : BOOLEAN]

Types == /\ auth \in Auths /\ key \in Creds
         /\ proc \in [Procs -> ProcType]
         /\ child \in [Procs -> ChildType]
         /\ watch \in [Procs -> WatchType]

\* A process past its lock holds it; so all but one are at rest.
Resting(p) == proc[p].pc \in {"idle", "lock"}
Holding == \A p \in Procs : ~Resting(p) => holder = p

\* Where a command is tells what it is and how its profile authenticates.
Position(p) ==
    /\ proc[p].pc = "main" => proc[p].cmd = "run"
    /\ proc[p].pc \in Polling \union {"verdict", "route", "read_key"} =>
          proc[p].cmd \in {"run", "check"}
    /\ proc[p].pc \in Polling \union {"verdict"} /\ auth \in CodexStatic =>
          proc[p].cmd = "check"
    /\ proc[p].pc = "read_key" => /\ auth \in StaticSecret
                                  /\ auth \in CodexStatic => proc[p].cmd = "run"
    /\ proc[p].pc = "route" => auth \in ClaudeStatic
    /\ proc[p].pc \in {"confirm", "setup", "prompt", "recheck", "store"} =>
          proc[p].cmd = "login" /\ auth \in StaticSecret
    /\ proc[p].pc = "static_login" =>
          proc[p].cmd \in {"run", "login"} /\ auth \in CodexStatic
    /\ proc[p].pc = "delete" => proc[p].cmd = "logout"

\* A child is there while it is written to, polled or waited for, and no
\* longer once a poll has observed its end.
ChildPlaced(p) ==
    /\ proc[p].pc \notin Polling \union {"pipe", "wait"} => child[p] = NoChild
    /\ proc[p].pc \in Polling => /\ child[p].job \in Preflights \union {"none"}
                                 /\ watch[p].exited => child[p] = NoChild
    /\ proc[p].pc = "pipe" =>
          child[p].job = "static_login" /\ child[p].secret = NoSecret
    /\ proc[p].pc = "wait" => child[p].job \in Foreground
    /\ child[p].job = "main" => proc[p].cmd = "run"
    /\ child[p].job = "static_login" =>
          proc[p].cmd \in {"run", "login"} /\ auth \in CodexStatic
    /\ child[p].job = "oauth_login" => auth = "codex_oauth" /\ proc[p].cmd = "login"
    /\ child[p].job = "logout" => proc[p].cmd = "logout"
    /\ child[p].job = "setup" => proc[p].cmd = "login" /\ auth \in StaticSecret

\* The credential a command works with is the stored one.
KeyRead(p) == proc[p].secret = key /\ key # NoSecret
KeyHeld(p) ==
    /\ auth \in ClaudeStatic
         /\ proc[p].pc \in Polling \union {"route", "verdict", "main"} => KeyRead(p)
    /\ auth \in ClaudeStatic /\ child[p].job = "main" =>
          child[p].secret = key /\ key # NoSecret
    /\ proc[p].pc = "static_login" \/ child[p].job = "static_login" => KeyRead(p)
    /\ child[p].job = "static_login" => child[p].secret \in {NoSecret, key}
    /\ proc[p].pc = "wait" /\ child[p].job = "static_login" => child[p].secret = key
    /\ proc[p].pc \in {"recheck", "store"} => proc[p].secret # NoSecret

\* What a child that ended well has left in the vendor's cache.
CacheIs(value) == cache = value \/ strayed
Ended(p, job) == child[p].job = job /\ ~child[p].alive /\ child[p].code = 0
CacheHeld(p) ==
    /\ auth \in CodexStatic /\ (proc[p].pc = "main" \/ child[p].job = "main") =>
          key # NoSecret /\ CacheIs(key)
    /\ Ended(p, "static_login") => CacheIs(key)
    /\ Ended(p, "logout") \/ (proc[p].pc = "delete" /\ auth \in Codex) =>
          CacheIs(NoSecret)

\* What a command that reports success has done.
ResultTrue(p) ==
    proc[p].pc = "done" /\ proc[p].ok =>
        /\ proc[p].cmd = "login" /\ auth \in StaticSecret =>
              KeyRead(p) /\ (auth \in CodexStatic => CacheIs(key))
        /\ proc[p].cmd = "logout" =>
              key = NoSecret /\ (auth \in Codex => CacheIs(NoSecret))

\* A credential found by a login for an old reference was asked about.
Consented(p) ==
    /\ proc[p].pc \in {"setup", "prompt", "recheck"} \/ child[p].job = "setup" =>
          (~proc[p].fresh /\ key # NoSecret => proc[p].consent)
    /\ proc[p].pc = "store" => (key # NoSecret => proc[p].consent)

Local(p) == /\ Position(p) /\ ChildPlaced(p) /\ KeyHeld(p) /\ CacheHeld(p)
            /\ ResultTrue(p) /\ Consented(p)

NothingStored == auth \notin StaticSecret => key = NoSecret

IInv == Types /\ Holding /\ NothingStored /\ \A p \in Procs : Local(p)

-----------------------------------------------------------------------------
(* The properties follow from it.                                          *)

LEMMA InvGivesMain == IInv => MainHasStored
BY DEF IInv, Local, KeyHeld, CacheHeld, CacheIs, MainHasStored

LEMMA InvGivesResults == IInv => ResultsTrue
BY DEF IInv, Local, ResultTrue, KeyRead, CacheIs, ResultsTrue

LEMMA InvGivesReaped == IInv => ChildrenReaped
BY DEF IInv, Local, ChildPlaced, Polling, ChildrenReaped

LEMMA InitInv == Init => IInv
<1> SUFFICES ASSUME Init PROVE IInv  OBVIOUS
<1>1. Types
  BY DEF Init, Types, Creds, ProcType, ChildType, WatchType, Pcs, Jobs, Idle, NoChild, NoWatch
<1>2. \A p \in Procs : Local(p)
  BY DEF Init, Local, Position, ChildPlaced, KeyHeld, CacheHeld, Ended, ResultTrue,
         Consented, Idle, NoChild, Polling
<1> QED  BY <1>1, <1>2 DEF Init, IInv, Holding, Resting, NothingStored, Idle

-----------------------------------------------------------------------------
(* What the steps of a command are made of.                                *)

LEMMA GotoStep ==
  ASSUME Types, NEW p \in Procs, NEW x \in Pcs, Goto(p, x)
  PROVE  /\ proc' \in [Procs -> ProcType]
         /\ proc'[p].pc = x
         /\ proc'[p].cmd = proc[p].cmd /\ proc'[p].secret = proc[p].secret
         /\ proc'[p].fresh = proc[p].fresh /\ proc'[p].consent = proc[p].consent
         /\ \A q \in Procs \ {p} : proc'[q] = proc[q]
BY DEF Types, Goto, ProcType

LEMMA EndStep ==
  ASSUME Types, NEW p \in Procs, NEW r, End(p, r)
  PROVE  /\ proc' \in [Procs -> ProcType]
         /\ proc'[p].pc = "done"
         /\ proc'[p].ok => r = "ok"
         /\ proc'[p].cmd = proc[p].cmd /\ proc'[p].secret = proc[p].secret
         /\ proc'[p].fresh = proc[p].fresh /\ proc'[p].consent = proc[p].consent
         /\ \A q \in Procs \ {p} : proc'[q] = proc[q]
<1>1. \E b \in BOOLEAN : /\ b => r = "ok"
                        /\ proc' = [proc EXCEPT ![p].pc = "done", ![p].ok = b]
  <2>1. (r = "ok") \in BOOLEAN  BY Zenon
  <2>2. proc' = [proc EXCEPT ![p].pc = "done", ![p].ok = (r = "ok")]
    BY DEF End
  <2> QED  BY <2>1, <2>2, Zenon
<1>2. PICK b \in BOOLEAN : /\ b => r = "ok"
                          /\ proc' = [proc EXCEPT ![p].pc = "done", ![p].ok = b]
  BY <1>1
<1>3. proc'[p] = [proc[p] EXCEPT !.pc = "done", !.ok = b]
  BY <1>2 DEF Types
<1>4. proc'[p].ok = b  BY <1>3 DEF Types, ProcType
<1>5. proc' \in [Procs -> ProcType]
  <2>1. [proc[p] EXCEPT !.pc = "done"] \in ProcType  BY DEF Types, ProcType, Pcs
  <2>2. \A s \in ProcType : [s EXCEPT !.ok = b] \in ProcType  BY <1>2 DEF ProcType
  <2>3. proc'[p] = [[proc[p] EXCEPT !.pc = "done"] EXCEPT !.ok = b]
    BY <1>3 DEF Types, ProcType
  <2>4. proc' = [proc EXCEPT ![p] = proc'[p]]  BY <1>2, <1>3 DEF Types
  <2> QED  BY <2>1, <2>2, <2>3, <2>4 DEF Types
<1> QED  BY <1>2, <1>3, <1>4, <1>5 DEF Types, ProcType

LEMMA ReapStep ==
  ASSUME Types, NEW p \in Procs, Reap(p)
  PROVE  /\ child' \in [Procs -> ChildType]
         /\ child'[p] = NoChild
         /\ \A q \in Procs \ {p} : child'[q] = child[q]
BY DEF Types, Reap, NoChild, ChildType, Jobs, Creds

\* NoChild is nobody's child and made no promise.
LEMMA NoChildFacts == /\ NoChild.job = "none" /\ NoChild.secret = NoSecret
                      /\ NoChild \in ChildType
BY DEF NoChild, ChildType, Jobs, Creds

(* A process at rest, or one that nothing happens to.                      *)
LEMMA RestingLocal ==
  ASSUME NEW q \in Procs, proc'[q].pc \in {"idle", "lock"}, child'[q] = NoChild
  PROVE  Local(q)'
BY NoChildFacts DEF Local, Position, ChildPlaced, KeyHeld, CacheHeld, Ended, ResultTrue,
       Consented, Polling

LEMMA KeptLocal ==
  ASSUME NEW q \in Procs, Local(q), proc'[q] = proc[q], child'[q] = child[q],
         watch'[q].exited = watch[q].exited,
         auth' = auth, key' = key, cache' = cache, strayed' = strayed
  PROVE  Local(q)'
BY DEF Local, Position, ChildPlaced, KeyHeld, KeyRead, CacheHeld, CacheIs, Ended,
       ResultTrue, Consented

(* A step of the process that holds the lock.                              *)
LEMMA HolderStep ==
  ASSUME IInv, NEW p \in Procs, ~Resting(p), auth' = auth, holder' = holder,
         Types', Local(p)', NothingStored',
         \A q \in Procs \ {p} : proc'[q] = proc[q] /\ child'[q] = child[q]
  PROVE  IInv'
<1>1. \A q \in Procs \ {p} : Resting(q)  BY DEF IInv, Holding
<1>2. \A q \in Procs \ {p} : Local(q)'
  <2> SUFFICES ASSUME NEW q \in Procs \ {p} PROVE Local(q)'  OBVIOUS
  <2>1. child[q] = NoChild  BY <1>1 DEF IInv, Local, ChildPlaced, Resting, Polling
  <2> QED  BY <1>1, <2>1, RestingLocal DEF Resting
<1>3. Holding'  BY <1>1 DEF IInv, Holding, Resting
<1> QED  BY <1>2, <1>3 DEF IInv

-----------------------------------------------------------------------------
(* Commands that end, and children that start.                             *)

LEMMA SpawnStep ==
  ASSUME Types, NEW p \in Procs, NEW job \in Jobs, NEW s \in Creds, NEW x \in Pcs,
         Spawn(p, job, s, x)
  PROVE  /\ proc' \in [Procs -> ProcType]
         /\ child' \in [Procs -> ChildType]
         /\ watch' \in [Procs -> WatchType]
         /\ proc'[p].pc = x
         /\ proc'[p].cmd = proc[p].cmd /\ proc'[p].secret = proc[p].secret
         /\ proc'[p].fresh = proc[p].fresh /\ proc'[p].consent = proc[p].consent
         /\ child'[p].job = job /\ child'[p].secret = s /\ child'[p].alive
         /\ watch'[p].job = job /\ ~watch'[p].exited
         /\ \A q \in Procs \ {p} : proc'[q] = proc[q] /\ child'[q] = child[q]
<1>1. Goto(p, x)  BY DEF Spawn, Goto
<1>2. \A c \in ChildType, b \in BOOLEAN :
        LET d == [c EXCEPT !.job = job, !.secret = s, !.alive = b]
        IN  d \in ChildType /\ d.job = job /\ d.secret = s /\ d.alive = b
  BY DEF ChildType
<1>3. \A w \in WatchType :
        LET d == [w EXCEPT !.job = job]
        IN  d \in WatchType /\ d.job = job /\ d.exited = w.exited
  BY DEF WatchType
<1> DEFINE c == [NoChild EXCEPT !.job = job, !.secret = s, !.alive = TRUE]
           w == [NoWatch EXCEPT !.job = job]
<1>4. child' = [child EXCEPT ![p] = c] /\ watch' = [watch EXCEPT ![p] = w]
  BY DEF Spawn
<1>5. c \in ChildType /\ c.job = job /\ c.secret = s /\ c.alive
  <2>1. c \in ChildType /\ c.job = job /\ c.secret = s /\ c.alive = TRUE
    BY <1>2, NoChildFacts, TRUE \in BOOLEAN, Zenon
  <2> QED  BY <2>1, Zenon
<1>6. NoWatch \in WatchType /\ ~NoWatch.exited
  BY DEF NoWatch, WatchType, Jobs
<1>7. w \in WatchType /\ w.job = job /\ ~w.exited
  BY <1>3, <1>6, Zenon
<1> HIDE DEF c, w
<1> QED  BY <1>1, <1>4, <1>5, <1>7, GotoStep DEF Types

LEMMA ReturnKeeps ==
  ASSUME IInv, NEW p \in Procs, ~Resting(p), child[p] = NoChild, NEW r, Return(p, r),
         r = "ok" => /\ proc[p].cmd # "logout"
                     /\ proc[p].cmd = "login" => auth \notin StaticSecret
  PROVE  IInv'
<1>1. End(p, r) /\ auth' = auth /\ key' = key /\ holder' = holder /\ child' = child
      /\ watch' = watch
  BY DEF Return
<1>2. Types'  BY <1>1, EndStep DEF IInv, Types
<1>3. Local(p)'
  BY <1>1, EndStep, NoChildFacts DEF IInv, Local, Position, ChildPlaced, KeyHeld,
     CacheHeld, Ended, ResultTrue, Consented, Polling
<1> QED  BY <1>1, <1>2, <1>3, EndStep, HolderStep DEF IInv, NothingStored

LEMMA AbandonKeeps ==
  ASSUME IInv, NEW p \in Procs, ~Resting(p), Abandon(p)
  PROVE  IInv'
<1>1. /\ End(p, "error") /\ Reap(p) /\ watch' = [watch EXCEPT ![p] = NoWatch]
      /\ auth' = auth /\ key' = key /\ holder' = holder
  BY DEF Abandon
<1>2. Types'
  BY <1>1, EndStep, ReapStep DEF IInv, Types, WatchType, NoWatch, Jobs
<1>3. Local(p)'
  BY <1>1, EndStep, ReapStep, NoChildFacts DEF IInv, Local, Position, ChildPlaced,
     KeyHeld, CacheHeld, Ended, ResultTrue, Consented, Polling
<1> QED  BY <1>1, <1>2, <1>3, EndStep, ReapStep, HolderStep DEF IInv, NothingStored

\* A command at its start has no child.
LEMMA StartFacts ==
  ASSUME IInv, NEW p \in Procs, proc[p].pc \notin Polling \union {"pipe", "wait"}
  PROVE  child[p] = NoChild
BY DEF IInv, Local, ChildPlaced

LEMMA RefusedKeeps ==
  ASSUME IInv, NEW p \in Procs, Refused(p)
  PROVE  IInv'
BY StartFacts, ReturnKeeps DEF Refused, Resting, Polling

-----------------------------------------------------------------------------
(* The first step of each command.                                         *)

LEMMA ContinueKeeps ==
  ASSUME IInv, NEW p \in Procs, proc[p].pc = "start",
         NEW x \in {"read_key", "main", "confirm", "delete"}, Continue(p, x),
         x = "read_key" => /\ proc[p].cmd \in {"run", "check"} /\ auth \in StaticSecret
                           /\ auth \in CodexStatic => proc[p].cmd = "run",
         x = "main" => proc[p].cmd = "run" /\ auth \notin StaticSecret,
         x = "confirm" => proc[p].cmd = "login" /\ auth \in StaticSecret,
         x = "delete" => proc[p].cmd = "logout" /\ auth \notin Codex
  PROVE  IInv'
<1>1. x \in Pcs  BY DEF Pcs
<1>2. /\ Goto(p, x) /\ auth' = auth /\ key' = key /\ holder' = holder
      /\ child' = child /\ watch' = watch
  BY DEF Continue
<1>3. child[p] = NoChild  BY StartFacts DEF Polling
<1>4. Types'  BY <1>1, <1>2, GotoStep DEF IInv, Types
<1>5. Local(p)'
  BY <1>1, <1>2, <1>3, GotoStep, NoChildFacts DEF IInv, Local, Position, ChildPlaced,
     KeyHeld, CacheHeld, Ended, ResultTrue, Consented, Polling, StaticSecret
<1> QED  BY <1>1, <1>2, <1>4, <1>5, GotoStep, HolderStep DEF IInv, NothingStored, Resting

LEMMA SpawnKeeps ==
  ASSUME IInv, NEW p \in Procs, proc[p].pc = "start",
         NEW job \in {"status", "oauth_login", "logout"},
         Start(p, job, NoSecret, IF job = "status" THEN "poll_status" ELSE "wait"),
         job = "status" => /\ proc[p].cmd \in {"run", "check"}
                           /\ auth \notin ClaudeStatic
                           /\ auth \in CodexStatic => proc[p].cmd = "check",
         job = "oauth_login" => auth = "codex_oauth" /\ proc[p].cmd = "login",
         job = "logout" => proc[p].cmd = "logout"
  PROVE  IInv'
<1> DEFINE x == IF job = "status" THEN "poll_status" ELSE "wait"
<1>1. x \in Pcs /\ job \in Jobs /\ NoSecret \in Creds
  BY DEF Pcs, Polling, Jobs, Foreground, Preflights, Creds
<1>2. /\ Spawn(p, job, NoSecret, x)
      /\ auth' = auth /\ key' = key /\ holder' = holder
  BY DEF Start
<1>3. Types'  BY <1>1, <1>2, SpawnStep DEF IInv, Types
<1>4. Local(p)'
  BY <1>1, <1>2, SpawnStep DEF IInv, Local, Position, ChildPlaced, KeyHeld, CacheHeld,
     Ended, ResultTrue, Consented, Polling, Preflights, Foreground
<1> QED  BY <1>1, <1>2, <1>3, <1>4, SpawnStep, HolderStep DEF IInv, NothingStored, Resting

LEMMA StartRunKeeps ==
  ASSUME IInv, NEW p \in Procs, StartRun(p)
  PROVE  IInv'
<1>1. /\ proc[p].pc = "start" /\ proc[p].cmd = "run"
      /\ child[p] = NoChild /\ ~Resting(p)
  BY StartFacts DEF StartRun, Resting, Polling
<1>2. \/ Return(p, "error")
      \/ SpawnStatus(p) /\ auth = "codex_oauth"
      \/ Continue(p, "read_key") /\ auth \in StaticSecret
      \/ Continue(p, "main") /\ auth \notin StaticSecret
  BY DEF StartRun, StaticSecret, ClaudeStatic, CodexStatic
<1>3. CASE Return(p, "error")  BY <1>1, <1>3, ReturnKeeps
<1>4. CASE SpawnStatus(p) /\ auth = "codex_oauth"
  BY <1>1, <1>4, SpawnKeeps DEF SpawnStatus, ClaudeStatic, CodexStatic
<1>5. CASE Continue(p, "read_key") /\ auth \in StaticSecret
  BY <1>1, <1>5, ContinueKeeps
<1>6. CASE Continue(p, "main") /\ auth \notin StaticSecret
  BY <1>1, <1>6, ContinueKeeps
<1> QED  BY <1>2, <1>3, <1>4, <1>5, <1>6

LEMMA StartLoginKeeps ==
  ASSUME IInv, NEW p \in Procs, StartLogin(p)
  PROVE  IInv'
<1>1. /\ proc[p].pc = "start" /\ proc[p].cmd = "login"
      /\ child[p] = NoChild /\ ~Resting(p)
  BY StartFacts DEF StartLogin, Resting, Polling
<1>2. auth \in Auths  BY DEF IInv, Types
<1>3. \/ Return(p, "error")
      \/ LoginFor(p) /\ auth # "codex_wif"
  BY DEF StartLogin
<1>4. CASE Return(p, "error")  BY <1>1, <1>4, ReturnKeeps
<1>5. CASE LoginFor(p) /\ auth # "codex_wif"
  <2>1. \/ Continue(p, "confirm") /\ auth \in StaticSecret
        \/ SpawnOauth(p) /\ auth = "codex_oauth"
        \/ Return(p, "ok") /\ auth = "claude_wif"
    BY <1>2, <1>5 DEF LoginFor, StaticSecret, ClaudeStatic, CodexStatic, Auths, Wif
  <2>2. CASE Continue(p, "confirm") /\ auth \in StaticSecret
    BY <1>1, <2>2, ContinueKeeps
  <2>3. CASE SpawnOauth(p) /\ auth = "codex_oauth"
    BY <1>1, <2>3, SpawnKeeps DEF SpawnOauth
  <2>4. CASE Return(p, "ok") /\ auth = "claude_wif"
    BY <1>1, <2>4, ReturnKeeps DEF StaticSecret, ClaudeStatic, CodexStatic
  <2> QED  BY <2>1, <2>2, <2>3, <2>4
<1> QED  BY <1>3, <1>4, <1>5

LEMMA StartLogoutKeeps ==
  ASSUME IInv, NEW p \in Procs, StartLogout(p)
  PROVE  IInv'
<1>1. /\ proc[p].pc = "start" /\ proc[p].cmd = "logout"
      /\ child[p] = NoChild /\ ~Resting(p)
  BY StartFacts DEF StartLogout, Resting, Polling
<1>2. \/ Return(p, "error")
      \/ SpawnLogout(p)
      \/ Continue(p, "delete") /\ auth \notin Codex
  BY DEF StartLogout
<1>3. CASE Return(p, "error")  BY <1>1, <1>3, ReturnKeeps
<1>4. CASE SpawnLogout(p)  BY <1>1, <1>4, SpawnKeeps DEF SpawnLogout
<1>5. CASE Continue(p, "delete") /\ auth \notin Codex
  BY <1>1, <1>5, ContinueKeeps
<1> QED  BY <1>2, <1>3, <1>4, <1>5

LEMMA StartCheckKeeps ==
  ASSUME IInv, NEW p \in Procs, StartCheck(p)
  PROVE  IInv'
<1>1. /\ proc[p].pc = "start" /\ proc[p].cmd = "check"
      /\ child[p] = NoChild /\ ~Resting(p)
  BY StartFacts DEF StartCheck, Resting, Polling
<1>2. \/ Return(p, "error")
      \/ Continue(p, "read_key") /\ auth \in ClaudeStatic
      \/ SpawnStatus(p) /\ auth \notin ClaudeStatic
      \/ Return(p, "ok")
  BY DEF StartCheck, StaticSecret, ClaudeStatic, CodexStatic
<1>3. CASE Return(p, "error")  BY <1>1, <1>3, ReturnKeeps
<1>4. CASE Continue(p, "read_key") /\ auth \in ClaudeStatic
  BY <1>1, <1>4, ContinueKeeps DEF StaticSecret, ClaudeStatic, CodexStatic
<1>5. CASE SpawnStatus(p) /\ auth \notin ClaudeStatic
  BY <1>1, <1>5, SpawnKeeps DEF SpawnStatus
<1>6. CASE Return(p, "ok")  BY <1>1, <1>6, ReturnKeeps
<1> QED  BY <1>2, <1>3, <1>4, <1>5, <1>6

-----------------------------------------------------------------------------
(* The children a command starts later.                                    *)

LEMMA SpawnRouteKeeps ==
  ASSUME IInv, NEW p \in Procs, SpawnRoute(p)
  PROVE  IInv'
<1>1. proc[p].pc = "route" /\ child[p] = NoChild /\ ~Resting(p)
  BY StartFacts DEF SpawnRoute, Resting, Polling
<1>2. CASE Return(p, "error")  BY <1>1, <1>2, ReturnKeeps
<1>3. CASE Start(p, "route", proc[p].secret, "poll_status")
  <2>1. /\ "poll_status" \in Pcs /\ "route" \in Jobs /\ proc[p].secret \in Creds
    BY DEF Pcs, Polling, Jobs, Preflights, IInv, Types, ProcType
  <2>2. /\ Spawn(p, "route", proc[p].secret, "poll_status")
        /\ auth' = auth /\ key' = key /\ holder' = holder
    BY <1>3 DEF Start
  <2>3. Types'  BY <2>1, <2>2, SpawnStep DEF IInv, Types
  <2>4. Local(p)'
    BY <1>1, <2>1, <2>2, SpawnStep DEF IInv, Local, Position, ChildPlaced, KeyHeld,
       KeyRead, CacheHeld, Ended, ResultTrue, Consented, Polling, Preflights, Foreground,
       ClaudeStatic, CodexStatic
  <2> QED  BY <1>1, <2>1, <2>2, <2>3, <2>4, SpawnStep, HolderStep DEF IInv, NothingStored
<1> QED  BY <1>2, <1>3 DEF SpawnRoute

LEMMA SpawnSetupKeeps ==
  ASSUME IInv, NEW p \in Procs, SpawnSetup(p)
  PROVE  IInv'
<1>1. proc[p].pc = "setup" /\ child[p] = NoChild /\ ~Resting(p)
  BY StartFacts DEF SpawnSetup, Resting, Polling
<1>2. CASE Return(p, "error")  BY <1>1, <1>2, ReturnKeeps
<1>3. CASE Start(p, "setup", NoSecret, "wait")
  <2>1. "wait" \in Pcs /\ "setup" \in Jobs /\ NoSecret \in Creds
    BY DEF Pcs, Jobs, Foreground, Creds
  <2>2. /\ Spawn(p, "setup", NoSecret, "wait")
        /\ auth' = auth /\ key' = key /\ holder' = holder
    BY <1>3 DEF Start
  <2>3. Types'  BY <2>1, <2>2, SpawnStep DEF IInv, Types
  <2>4. Local(p)'
    BY <1>1, <2>1, <2>2, SpawnStep DEF IInv, Local, Position, ChildPlaced, KeyHeld,
       CacheHeld, Ended, ResultTrue, Consented, Polling, Preflights, Foreground
  <2> QED  BY <1>1, <2>1, <2>2, <2>3, <2>4, SpawnStep, HolderStep DEF IInv, NothingStored
<1> QED  BY <1>2, <1>3 DEF SpawnSetup

LEMMA SpawnStaticLoginKeeps ==
  ASSUME IInv, NEW p \in Procs, SpawnStaticLogin(p)
  PROVE  IInv'
<1>1. proc[p].pc = "static_login" /\ child[p] = NoChild /\ ~Resting(p)
  BY StartFacts DEF SpawnStaticLogin, Resting, Polling
<1>2. CASE Return(p, "error")  BY <1>1, <1>2, ReturnKeeps
<1>3. CASE Start(p, "static_login", NoSecret, "pipe")
  <2>1. "pipe" \in Pcs /\ "static_login" \in Jobs /\ NoSecret \in Creds
    BY DEF Pcs, Jobs, Foreground, Creds
  <2>2. /\ Spawn(p, "static_login", NoSecret, "pipe")
        /\ auth' = auth /\ key' = key /\ holder' = holder
    BY <1>3 DEF Start
  <2>3. Types'  BY <2>1, <2>2, SpawnStep DEF IInv, Types
  <2>4. Local(p)'
    BY <1>1, <2>1, <2>2, SpawnStep DEF IInv, Local, Position, ChildPlaced, KeyHeld,
       KeyRead, CacheHeld, Ended, ResultTrue, Consented, Polling, Preflights, Foreground
  <2> QED  BY <1>1, <2>1, <2>2, <2>3, <2>4, SpawnStep, HolderStep DEF IInv, NothingStored
<1> QED  BY <1>2, <1>3 DEF SpawnStaticLogin

\* One field of a child changes.
LEMMA WriteSecretKeeps ==
  ASSUME IInv, NEW p \in Procs, WriteSecret(p)
  PROVE  IInv'
<1>1. proc[p].pc = "pipe" /\ ~Resting(p)  BY DEF WriteSecret, Resting
<1>2. CASE Abandon(p)  BY <1>1, <1>2, AbandonKeeps
<1>3. CASE ~Abandon(p)
  <2>1. /\ child' = [child EXCEPT ![p].secret = proc[p].secret]
        /\ Goto(p, "wait") /\ child[p].alive
        /\ auth' = auth /\ key' = key /\ cache' = cache /\ holder' = holder
        /\ watch' = watch /\ strayed' = strayed
    BY <1>3 DEF WriteSecret, outside
  <2>2. /\ child' \in [Procs -> ChildType]
        /\ child'[p].secret = proc[p].secret /\ child'[p].job = child[p].job
        /\ child'[p].alive
        /\ \A q \in Procs \ {p} : child'[q] = child[q]
    BY <2>1 DEF IInv, Types, ChildType, ProcType
  <2>3. "wait" \in Pcs  BY DEF Pcs
  <2>4. Types'  BY <2>1, <2>2, <2>3, GotoStep DEF IInv, Types
  <2>5. Local(p)'
    BY <1>1, <2>1, <2>2, <2>3, GotoStep DEF IInv, Local, Position, ChildPlaced, KeyHeld,
       KeyRead, CacheHeld, Ended, ResultTrue, Consented, Polling, Foreground
  <2> QED  BY <1>1, <2>1, <2>2, <2>3, <2>4, <2>5, GotoStep, HolderStep DEF IInv, NothingStored
<1> QED  BY <1>2, <1>3

LEMMA SpawnMainKeeps ==
  ASSUME IInv, NEW p \in Procs, SpawnMain(p)
  PROVE  IInv'
<1>1. proc[p].pc = "main" /\ child[p] = NoChild /\ ~Resting(p)
  BY StartFacts DEF SpawnMain, Resting, Polling
<1>2. CASE Return(p, "error")  BY <1>1, <1>2, ReturnKeeps
<1>3. CASE ~Return(p, "error")
  <2> DEFINE s == SecretInEnvironment(p)
             c == [NoChild EXCEPT !.job = "main", !.alive = TRUE, !.secret = s]
  <2>1. /\ child' = [child EXCEPT ![p] = c]
        /\ proc' = [proc EXCEPT ![p].pc = "wait", ![p].secret = NoSecret]
        /\ auth' = auth /\ key' = key /\ cache' = cache /\ holder' = holder
        /\ watch' = watch /\ strayed' = strayed
    BY <1>3 DEF SpawnMain, outside
  <2>2. s \in Creds
    BY DEF SecretInEnvironment, IInv, Types, ProcType, Creds
  <2>3. \A d \in ChildType, b \in BOOLEAN :
          LET e == [d EXCEPT !.job = "main", !.alive = b, !.secret = s]
          IN  e \in ChildType /\ e.job = "main" /\ e.secret = s
    BY <2>2 DEF ChildType, Jobs, Foreground
  <2>4. c \in ChildType /\ c.job = "main" /\ c.secret = s
    BY <2>3, NoChildFacts, TRUE \in BOOLEAN, Zenon
  <2> HIDE DEF c
  <2>5. /\ child' \in [Procs -> ChildType]
        /\ child'[p].job = "main" /\ child'[p].secret = s
        /\ \A q \in Procs \ {p} : child'[q] = child[q]
    BY <2>1, <2>4 DEF IInv, Types
  <2>6. /\ proc' \in [Procs -> ProcType]
        /\ proc'[p].pc = "wait" /\ proc'[p].cmd = proc[p].cmd
        /\ \A q \in Procs \ {p} : proc'[q] = proc[q]
    <3>1. "wait" \in Pcs /\ NoSecret \in Creds  BY DEF Pcs, Creds
    <3> QED  BY <2>1, <3>1 DEF IInv, Types, ProcType
  <2>7. Types'  BY <2>1, <2>5, <2>6 DEF IInv, Types
  <2>8. auth \in ClaudeStatic => s = key /\ key # NoSecret
    BY <1>1 DEF SecretInEnvironment, IInv, Local, KeyHeld, KeyRead
  <2>9. auth \in CodexStatic => key # NoSecret /\ CacheIs(key)
    BY <1>1 DEF IInv, Local, CacheHeld
  <2>10. CacheIs(key)' = CacheIs(key)  BY <2>1 DEF CacheIs
  <2>11. proc[p].cmd = "run"  BY <1>1 DEF IInv, Local, Position
  <2>12. Local(p)'
    BY <2>1, <2>5, <2>6, <2>8, <2>9, <2>10, <2>11 DEF Local, Position, ChildPlaced, KeyHeld,
       CacheHeld, CacheIs, Ended, ResultTrue, Consented, Polling, Foreground
  <2> QED  BY <1>1, <2>1, <2>5, <2>6, <2>7, <2>12, HolderStep DEF IInv, NothingStored
<1> QED  BY <1>2, <1>3

-----------------------------------------------------------------------------
(* Preflights.                                                             *)

\* A poll that goes on, and one that has all it needs.
LEMMA PollOn ==
  ASSUME IInv, NEW p \in Procs, proc[p].pc \in Polling, NEW x, Goto(p, x),
         x \in Polling \/ (x = "verdict" /\ watch[p].exited),
         UNCHANGED <<auth, key, cache, holder, child, watch, sig, outside>>
  PROVE  IInv'
<1>1. x \in Pcs /\ ~Resting(p)  BY DEF Pcs, Polling, Resting
<1>2. /\ auth' = auth /\ key' = key /\ cache' = cache /\ holder' = holder
      /\ child' = child /\ watch' = watch /\ strayed' = strayed
  BY DEF outside
<1>3. Types'  BY <1>1, <1>2, GotoStep DEF IInv, Types
<1>4. Local(p)'
  BY <1>1, <1>2, GotoStep, NoChildFacts DEF IInv, Local, Position, ChildPlaced, KeyHeld,
     KeyRead, CacheHeld, CacheIs, Ended, ResultTrue, Consented, Polling
<1> QED  BY <1>1, <1>2, <1>3, <1>4, GotoStep, HolderStep DEF IInv, NothingStored

LEMMA PollStatusKeeps ==
  ASSUME IInv, NEW p \in Procs, PollStatus(p)
  PROVE  IInv'
<1>1. proc[p].pc = "poll_status" /\ ~Resting(p)  BY DEF PollStatus, Resting
<1>2. CASE /\ watch' = [watch EXCEPT ![p].exited = TRUE, ![p].code = child[p].code]
           /\ Reap(p)
           /\ Goto(p, IF watch[p].job = "status" THEN "verdict" ELSE "poll_output")
           /\ UNCHANGED <<auth, key, cache, holder, sig, outside>>
  <2> DEFINE x == IF watch[p].job = "status" THEN "verdict" ELSE "poll_output"
  <2>1. x \in Pcs  BY DEF Pcs, Polling
  <2>2. /\ Goto(p, x) /\ Reap(p)
        /\ auth' = auth /\ key' = key /\ cache' = cache /\ holder' = holder
        /\ strayed' = strayed
    BY <1>2 DEF outside
  <2>3. watch' \in [Procs -> WatchType]
    <3>1. child[p].code \in {0, 1}  BY DEF IInv, Types, ChildType
    <3>2. PICK b \in BOOLEAN, n \in {0, 1} :
            watch' = [watch EXCEPT ![p].exited = b, ![p].code = n]
      BY <1>2, <3>1, TRUE \in BOOLEAN, Zenon
    <3>3. watch[p] \in WatchType  BY DEF IInv, Types
    <3>4. watch'[p] = [watch[p] EXCEPT !.exited = b, !.code = n]
      BY <3>2 DEF IInv, Types
    <3>5. watch'[p] \in WatchType
      <4>1. \A w \in WatchType : [w EXCEPT !.exited = b, !.code = n] \in WatchType
        BY DEF WatchType
      <4> QED  BY <3>3, <3>4, <4>1, Zenon
    <3>6. watch' = [watch EXCEPT ![p] = watch'[p]]  BY <3>2, <3>4 DEF IInv, Types
    <3> QED  BY <3>5, <3>6 DEF IInv, Types
  <2>4. Types'  BY <2>1, <2>2, <2>3, GotoStep, ReapStep DEF IInv, Types
  <2>5. Local(p)'
    BY <1>1, <2>1, <2>2, GotoStep, ReapStep, NoChildFacts DEF IInv, Local, Position,
       ChildPlaced, KeyHeld, KeyRead, CacheHeld, Ended, ResultTrue, Consented, Polling
  <2> QED  BY <1>1, <2>1, <2>2, <2>4, <2>5, GotoStep, ReapStep, HolderStep
       DEF IInv, NothingStored
<1>3. CASE /\ Goto(p, IF watch[p].job = "status" THEN "poll_deadline" ELSE "poll_output")
           /\ UNCHANGED <<auth, key, cache, holder, child, watch, sig, outside>>
  <2> DEFINE x == IF watch[p].job = "status" THEN "poll_deadline" ELSE "poll_output"
  <2>1. proc[p].pc \in Polling /\ x \in Polling  BY <1>1 DEF Polling
  <2>2. Goto(p, x)  BY <1>3
  <2> HIDE DEF x
  <2> QED  BY <1>3, <2>1, <2>2, PollOn
<1> QED  BY <1>2, <1>3 DEF PollStatus

LEMMA PollOutputKeeps ==
  ASSUME IInv, NEW p \in Procs, PollOutput(p)
  PROVE  IInv'
<1>1. proc[p].pc = "poll_output" /\ ~Resting(p)  BY DEF PollOutput, Resting
<1>2. CASE Abandon(p)  BY <1>1, <1>2, AbandonKeeps
<1>3. CASE ~Abandon(p)
  <2> DEFINE x == IF watch[p].exited /\ watch[p].output = "bytes" THEN "verdict"
                                                                 ELSE "poll_deadline"
  <2>1. /\ Goto(p, x)
        /\ UNCHANGED <<auth, key, cache, holder, child, watch, sig, outside>>
    BY <1>3 DEF PollOutput
  <2>2. /\ proc[p].pc \in Polling
        /\ x \in Polling \/ (x = "verdict" /\ watch[p].exited)
    BY <1>1 DEF Polling
  <2> HIDE DEF x
  <2> QED  BY <2>1, <2>2, PollOn
<1> QED  BY <1>2, <1>3

LEMMA PollDeadlineKeeps ==
  ASSUME IInv, NEW p \in Procs, PollDeadline(p)
  PROVE  IInv'
<1>1. proc[p].pc = "poll_deadline" /\ ~Resting(p)  BY DEF PollDeadline, Resting
<1>2. CASE Abandon(p)  BY <1>1, <1>2, AbandonKeeps
<1>3. CASE ~Abandon(p)
  <2>1. /\ Goto(p, "poll_status")
        /\ UNCHANGED <<auth, key, cache, holder, child, watch, sig, outside>>
    BY <1>3 DEF PollDeadline
  <2>2. proc[p].pc \in Polling /\ "poll_status" \in Polling  BY <1>1 DEF Polling
  <2> QED  BY <2>1, <2>2, PollOn
<1> QED  BY <1>2, <1>3

(* Steps that move no process and no child.                                *)
LEMMA AsideKeeps ==
  ASSUME IInv, watch' \in [Procs -> WatchType],
         \A q \in Procs : watch'[q].exited = watch[q].exited,
         UNCHANGED <<auth, key, cache, holder, proc, child, outside>>
  PROVE  IInv'
<1>1. /\ auth' = auth /\ key' = key /\ cache' = cache /\ holder' = holder
      /\ proc' = proc /\ child' = child /\ strayed' = strayed
  BY DEF outside
<1>2. \A q \in Procs : Local(q)'  BY <1>1, KeptLocal DEF IInv
<1> QED  BY <1>1, <1>2 DEF IInv, Types, Holding, Resting, NothingStored

LEMMA ReaderKeeps ==
  ASSUME IInv, NEW p \in Procs, Reader(p)
  PROVE  IInv'
<1>1. PICK o \in {"bytes", "oversize", "failed"} : watch' = [watch EXCEPT ![p].output = o]
  BY DEF Reader
<1>2. /\ watch' \in [Procs -> WatchType]
      /\ \A q \in Procs : watch'[q].exited = watch[q].exited
  BY <1>1 DEF IInv, Types, WatchType
<1> QED  BY <1>2, AsideKeeps DEF Reader

LEMMA LateKeeps ==
  ASSUME IInv, NEW p \in Procs, Late(p)
  PROVE  IInv'
<1>1. watch' = [watch EXCEPT ![p].late = TRUE]  BY DEF Late
<1>2. PICK b \in BOOLEAN : watch' = [watch EXCEPT ![p].late = b]
  BY <1>1, TRUE \in BOOLEAN, Zenon
<1>3. /\ watch' \in [Procs -> WatchType]
      /\ \A q \in Procs : watch'[q].exited = watch[q].exited
  BY <1>2 DEF IInv, Types, WatchType
<1> QED  BY <1>3, AsideKeeps DEF Late

LEMMA SignalKeeps ==
  ASSUME IInv, NEW p \in Procs, Signal(p)
  PROVE  IInv'
<1>1. watch' = watch  BY DEF Signal
<1> QED  BY <1>1, AsideKeeps DEF Signal, IInv, Types

-----------------------------------------------------------------------------
(* What a command makes of a child that ended.                             *)

LEMMA VerdictKeeps ==
  ASSUME IInv, NEW p \in Procs, Verdict(p)
  PROVE  IInv'
<1>1. proc[p].pc = "verdict" /\ child[p] = NoChild /\ ~Resting(p)
  BY StartFacts DEF Verdict, Resting, Polling
<1>2. /\ auth' = auth /\ key' = key /\ cache' = cache /\ holder' = holder
      /\ child' = child /\ strayed' = strayed /\ watch' = [watch EXCEPT ![p] = NoWatch]
  BY DEF Verdict, outside
<1>3. watch' \in [Procs -> WatchType]
  BY <1>2 DEF IInv, Types, WatchType, NoWatch, Jobs
<1>4. /\ proc[p].cmd \in {"run", "check"}
      /\ auth \in CodexStatic => proc[p].cmd = "check"
      /\ auth \in ClaudeStatic => KeyRead(p)
  BY <1>1 DEF IInv, Local, Position, KeyHeld
<1>5. CASE proc[p].cmd = "run" /\ Goto(p, "main")
  <2>1. "main" \in Pcs  BY DEF Pcs
  <2>2. Types'  BY <1>2, <1>3, <1>5, <2>1, GotoStep DEF IInv, Types
  <2>3. Local(p)'
    BY <1>1, <1>2, <1>4, <1>5, <2>1, GotoStep, NoChildFacts DEF IInv, Local, Position,
       ChildPlaced, KeyHeld, KeyRead, CacheHeld, Ended, ResultTrue, Consented, Polling
  <2> QED  BY <1>1, <1>2, <1>5, <2>1, <2>2, <2>3, GotoStep, HolderStep DEF IInv, NothingStored
<1>6. CASE \E r : End(p, r)
  <2>1. PICK r : End(p, r)  BY <1>6
  <2>2. Types'  BY <1>2, <1>3, <2>1, EndStep DEF IInv, Types
  <2>3. Local(p)'
    BY <1>1, <1>2, <1>4, <2>1, EndStep, NoChildFacts DEF IInv, Local, Position,
       ChildPlaced, KeyHeld, CacheHeld, Ended, ResultTrue, Consented, Polling
  <2> QED  BY <1>1, <1>2, <2>1, <2>2, <2>3, EndStep, HolderStep DEF IInv, NothingStored
<1>7. \/ proc[p].cmd = "run" /\ Goto(p, "main")
      \/ \E good \in BOOLEAN :
            End(p, IF watch[p].code = 0 /\ good THEN "ok" ELSE "error")
  BY DEF Verdict
<1> QED  BY <1>5, <1>6, <1>7

LEMMA WaitKeeps ==
  ASSUME IInv, NEW p \in Procs, Wait(p)
  PROVE  IInv'
<1>0. proc[p].pc = "wait" /\ ~Resting(p)  BY DEF Wait, Resting
<1> DEFINE x == AfterSuccess(p)
<1>1. /\ ~child[p].alive /\ Reap(p)
      /\ auth' = auth /\ key' = key /\ cache' = cache /\ holder' = holder
      /\ watch' = watch /\ strayed' = strayed
      /\ \/ child[p].code = 0 /\ x # "return" /\ Goto(p, x)
         \/ /\ child[p].code # 0 \/ x = "return"
            /\ End(p, IF child[p].code = 0 THEN "ok" ELSE "code")
  BY DEF Wait, outside
<1>2. child[p].job \in Foreground  BY <1>0 DEF IInv, Local, ChildPlaced
<1>3. CASE child[p].code = 0 /\ x # "return" /\ Goto(p, x)
  <2>1. \/ x = "main" /\ child[p].job = "static_login" /\ proc[p].cmd = "run"
        \/ x = "delete" /\ child[p].job = "logout"
        \/ x = "prompt" /\ child[p].job = "setup"
    BY <1>3 DEF AfterSuccess
  <2>2. x \in Pcs  BY <2>1 DEF Pcs
  <2> HIDE DEF x
  <2>3. Types'  BY <1>1, <1>3, <2>2, GotoStep, ReapStep DEF IInv, Types
  <2>4. /\ x = "main" => /\ auth \in CodexStatic
                         /\ key # NoSecret /\ CacheIs(key)
        /\ x = "delete" => proc[p].cmd = "logout" /\ CacheIs(NoSecret)
        /\ x = "prompt" => /\ proc[p].cmd = "login" /\ auth \in StaticSecret
                           /\ ~proc[p].fresh /\ key # NoSecret => proc[p].consent
    BY <1>1, <1>3, <2>1 DEF IInv, Local, ChildPlaced, KeyHeld, KeyRead, CacheHeld, Ended,
       Consented
  <2>5. \A v : CacheIs(v)' = CacheIs(v)  BY <1>1 DEF CacheIs
  <2>6. proc[p].cmd = "run" \/ x # "main"  BY <2>1
  <2>7. CASE x = "main"
    <3>1. auth \notin ClaudeStatic  BY <2>4, <2>7 DEF ClaudeStatic, CodexStatic
    <3> QED  BY <1>1, <1>3, <2>2, <2>3, <2>4, <2>6, <2>7, <3>1, GotoStep, ReapStep,
          NoChildFacts, HolderStep, <1>0
       DEF IInv, NothingStored, Local, Position, ChildPlaced, KeyHeld, CacheHeld, CacheIs,
           Ended, ResultTrue, Consented, Polling
  <2>8. CASE x \in {"delete", "prompt"}
    BY <1>1, <1>3, <2>2, <2>3, <2>4, <2>8, GotoStep, ReapStep, NoChildFacts, HolderStep,
       <1>0
    DEF IInv, NothingStored, Local, Position, ChildPlaced, KeyHeld, CacheHeld, CacheIs,
        Ended, ResultTrue, Consented, Polling
  <2> QED  BY <2>1, <2>7, <2>8
<1>4. CASE /\ child[p].code # 0 \/ x = "return"
           /\ End(p, IF child[p].code = 0 THEN "ok" ELSE "code")
  <2>1. Types'  BY <1>1, <1>4, EndStep, ReapStep DEF IInv, Types
  <2>2. CASE child[p].code # 0
    <3>1. End(p, "code")  BY <1>4, <2>2
    <3>2. ~proc'[p].ok  BY <3>1, EndStep DEF IInv
    <3>3. Local(p)'
      BY <1>1, <3>1, <3>2, EndStep, ReapStep, NoChildFacts DEF IInv, Local, Position,
         ChildPlaced, KeyHeld, CacheHeld, Ended, ResultTrue, Consented, Polling
    <3> QED  BY <1>0, <1>1, <2>1, <3>1, <3>3, EndStep, ReapStep, HolderStep
         DEF IInv, NothingStored
  <2>3. CASE child[p].code = 0
    <3>1. End(p, "ok") /\ x = "return"  BY <1>4, <2>3
    <3>2. \/ child[p].job \in {"main", "oauth_login"}
          \/ child[p].job = "static_login" /\ proc[p].cmd # "run"
      BY <1>2, <3>1 DEF AfterSuccess, Foreground
    <3>3. /\ proc[p].cmd # "logout"
          /\ proc[p].cmd = "login" /\ auth \in StaticSecret =>
                KeyRead(p) /\ CacheIs(key)
      BY <1>1, <2>3, <3>2 DEF IInv, Local, ChildPlaced, KeyHeld, CacheHeld, Ended,
         StaticSecret, ClaudeStatic, CodexStatic
    <3>4. Local(p)'
      BY <1>1, <3>1, <3>3, EndStep, ReapStep, NoChildFacts DEF IInv, Local, Position,
         ChildPlaced, KeyHeld, KeyRead, CacheHeld, CacheIs, Ended, ResultTrue, Consented,
         Polling
    <3> QED  BY <1>0, <1>1, <2>1, <3>1, <3>4, EndStep, ReapStep, HolderStep
         DEF IInv, NothingStored
  <2> QED  BY <2>2, <2>3
<1> QED  BY <1>1, <1>3, <1>4

\* try_wait or wait failed.
LEMMA WaitFailsKeeps ==
  ASSUME IInv, NEW p \in Procs, WaitFails(p) \/ TryWaitFails(p)
  PROVE  IInv'
<1>1. ~Resting(p) /\ proc[p].pc \in {"wait", "poll_status"} /\ Abandon(p)
  BY DEF WaitFails, TryWaitFails, Resting
<1> QED  BY <1>1, AbandonKeeps

LEMMA ForwardKeeps ==
  ASSUME IInv, NEW p \in Procs, Forward(p)
  PROVE  IInv'
<1>1. /\ proc[p].pc = "wait" /\ ~Resting(p)
      /\ child' = [child EXCEPT ![p].signalled = TRUE]
      /\ auth' = auth /\ key' = key /\ cache' = cache /\ holder' = holder
      /\ proc' = proc /\ watch' = watch /\ strayed' = strayed
  BY DEF Forward, Resting, outside
<1>2. PICK b \in BOOLEAN : child' = [child EXCEPT ![p].signalled = b]
  BY <1>1, TRUE \in BOOLEAN, Zenon
<1>3. /\ child' \in [Procs -> ChildType]
      /\ child'[p].job = child[p].job /\ child'[p].secret = child[p].secret
      /\ child'[p].alive = child[p].alive /\ child'[p].code = child[p].code
      /\ \A q \in Procs \ {p} : child'[q] = child[q]
  BY <1>2 DEF IInv, Types, ChildType
<1>4. Local(p)'
  BY <1>1, <1>3 DEF IInv, Local, Position, ChildPlaced, KeyHeld, KeyRead, CacheHeld, CacheIs,
     Ended, ResultTrue, Consented, Polling
<1> QED  BY <1>1, <1>3, <1>4, HolderStep DEF IInv, Types, NothingStored


-----------------------------------------------------------------------------
(* The keyring and the two prompts.                                        *)

LEMMA ReadKeyKeeps ==
  ASSUME IInv, NEW p \in Procs, ReadKey(p)
  PROVE  IInv'
<1>1. proc[p].pc = "read_key" /\ child[p] = NoChild /\ ~Resting(p)
  BY StartFacts DEF ReadKey, Resting, Polling
<1>2. CASE Return(p, "error")  BY <1>1, <1>2, ReturnKeeps
<1>3. CASE ~Return(p, "error")
  <2> DEFINE x == IF auth \in CodexStatic THEN "static_login" ELSE "route"
  <2>1. /\ key # NoSecret
        /\ proc' = [proc EXCEPT ![p].secret = key, ![p].pc = x]
        /\ auth' = auth /\ key' = key /\ cache' = cache /\ holder' = holder
        /\ child' = child /\ watch' = watch /\ strayed' = strayed
    BY <1>3 DEF ReadKey, outside
  <2>2. /\ auth \in StaticSecret /\ proc[p].cmd \in {"run", "check"}
        /\ auth \in CodexStatic => proc[p].cmd = "run"
    BY <1>1 DEF IInv, Local, Position
  <2>3. \/ x = "static_login" /\ auth \in CodexStatic /\ proc[p].cmd = "run"
        \/ x = "route" /\ auth \in ClaudeStatic
    BY <2>2 DEF StaticSecret
  <2>4. x \in Pcs  BY DEF Pcs
  <2> HIDE DEF x
  <2>5. /\ proc' \in [Procs -> ProcType]
        /\ proc'[p].pc = x /\ proc'[p].secret = key /\ proc'[p].cmd = proc[p].cmd
        /\ \A q \in Procs \ {p} : proc'[q] = proc[q]
    BY <2>1, <2>4 DEF IInv, Types, ProcType
  <2>6. Local(p)'
    BY <1>1, <2>1, <2>2, <2>3, <2>5, NoChildFacts DEF Local, Position, ChildPlaced, KeyHeld,
       KeyRead, CacheHeld, Ended, ResultTrue, Consented, Polling
  <2> QED  BY <1>1, <2>1, <2>5, <2>6, HolderStep DEF IInv, Types, NothingStored
<1> QED  BY <1>2, <1>3

\* A login that stays a login of a static credential and has no child.
LEMMA LoginLocal ==
  ASSUME IInv, NEW p \in Procs, child[p] = NoChild, child' = child, auth' = auth,
         proc'[p].pc \in {"setup", "prompt", "recheck", "store"},
         proc[p].cmd = "login", auth \in StaticSecret, proc'[p].cmd = proc[p].cmd,
         proc'[p].pc \in {"recheck", "store"} => proc'[p].secret # NoSecret,
         Consented(p)'
  PROVE  Local(p)'
BY NoChildFacts DEF Local, Position, ChildPlaced, KeyHeld, CacheHeld, Ended, ResultTrue,
   Polling

LEMMA ConfirmKeeps ==
  ASSUME IInv, NEW p \in Procs, Confirm(p)
  PROVE  IInv'
<1>1. proc[p].pc = "confirm" /\ child[p] = NoChild /\ ~Resting(p)
  BY StartFacts DEF Confirm, Resting, Polling
<1>2. CASE Return(p, "error")  BY <1>1, <1>2, ReturnKeeps
<1>3. CASE ~Return(p, "error")
  <2> DEFINE x == IF proc[p].generate THEN "setup" ELSE "prompt"
             asked == ~proc[p].fresh /\ key # NoSecret
  <2>1. /\ proc' = [proc EXCEPT ![p].pc = x, ![p].consent = asked]
        /\ auth' = auth /\ key' = key /\ cache' = cache /\ holder' = holder
        /\ child' = child /\ watch' = watch /\ strayed' = strayed
    BY <1>3 DEF Confirm, outside
  <2>2. PICK b \in BOOLEAN : /\ asked => b
                            /\ proc' = [proc EXCEPT ![p].pc = x, ![p].consent = b]
    <3>1. asked \in BOOLEAN  OBVIOUS
    <3> HIDE DEF asked
    <3> QED  BY <2>1, <3>1, Zenon
  <2>3. x \in {"setup", "prompt"}  OBVIOUS
  <2> HIDE DEF x
  <2>4. x \in Pcs  BY <2>3 DEF Pcs
  <2>5. /\ proc' \in [Procs -> ProcType]
        /\ proc'[p].pc = x /\ proc'[p].cmd = proc[p].cmd /\ proc'[p].fresh = proc[p].fresh
        /\ proc'[p].consent = b
        /\ \A q \in Procs \ {p} : proc'[q] = proc[q]
    BY <2>2, <2>4 DEF IInv, Types, ProcType
  <2>6. proc[p].cmd = "login" /\ auth \in StaticSecret  BY <1>1 DEF IInv, Local, Position
  <2>7. Consented(p)'  BY <1>1, <2>1, <2>2, <2>3, <2>5, NoChildFacts DEF Consented
  <2>8. Local(p)'  BY <1>1, <2>1, <2>3, <2>5, <2>6, <2>7, LoginLocal
  <2> QED  BY <1>1, <2>1, <2>5, <2>8, HolderStep DEF IInv, Types, NothingStored
<1> QED  BY <1>2, <1>3

LEMMA PromptKeeps ==
  ASSUME IInv, NEW p \in Procs, Prompt(p)
  PROVE  IInv'
<1>1. proc[p].pc = "prompt" /\ child[p] = NoChild /\ ~Resting(p)
  BY StartFacts DEF Prompt, Resting, Polling
<1>2. CASE Return(p, "error")  BY <1>1, <1>2, ReturnKeeps
<1>3. CASE ~Return(p, "error")
  <2>1. PICK s \in Secrets : proc' = [proc EXCEPT ![p].secret = s, ![p].pc = "recheck"]
    BY <1>3 DEF Prompt
  <2>2. /\ auth' = auth /\ key' = key /\ cache' = cache /\ holder' = holder
        /\ child' = child /\ watch' = watch /\ strayed' = strayed
    BY <1>3 DEF Prompt, outside
  <2>3. s \in Creds /\ s # NoSecret  BY SecretsAssumption DEF Creds
  <2>4. /\ proc' \in [Procs -> ProcType]
        /\ proc'[p].pc = "recheck" /\ proc'[p].secret = s
        /\ proc'[p].cmd = proc[p].cmd /\ proc'[p].fresh = proc[p].fresh
        /\ proc'[p].consent = proc[p].consent
        /\ \A q \in Procs \ {p} : proc'[q] = proc[q]
    <3>1. "recheck" \in Pcs  BY DEF Pcs
    <3> QED  BY <2>1, <2>3, <3>1 DEF IInv, Types, ProcType
  <2>5. proc[p].cmd = "login" /\ auth \in StaticSecret  BY <1>1 DEF IInv, Local, Position
  <2>6. Consented(p)'  BY <1>1, <2>2, <2>4 DEF IInv, Local, Consented
  <2>7. Local(p)'  BY <1>1, <2>2, <2>3, <2>4, <2>5, <2>6, LoginLocal
  <2> QED  BY <1>1, <2>2, <2>4, <2>7, HolderStep DEF IInv, Types, NothingStored
<1> QED  BY <1>2, <1>3

LEMMA RecheckKeeps ==
  ASSUME IInv, NEW p \in Procs, Recheck(p)
  PROVE  IInv'
<1>1. proc[p].pc = "recheck" /\ child[p] = NoChild /\ ~Resting(p)
  BY StartFacts DEF Recheck, Resting, Polling
<1>2. CASE Return(p, "error")  BY <1>1, <1>2, ReturnKeeps
<1>3. CASE ~Return(p, "error")
  <2> DEFINE asked == proc[p].consent \/ (proc[p].fresh /\ key # NoSecret)
  <2>1. /\ proc' = [proc EXCEPT ![p].pc = "store", ![p].consent = asked]
        /\ auth' = auth /\ key' = key /\ cache' = cache /\ holder' = holder
        /\ child' = child /\ watch' = watch /\ strayed' = strayed
    <3>1. proc' = [proc EXCEPT ![p].pc = "store",
                               ![p].consent = @ \/ (proc[p].fresh /\ key # NoSecret)]
      BY <1>3 DEF Recheck
    <3> QED  BY <1>3, <3>1 DEF Recheck, outside, IInv, Types, ProcType
  <2>2. PICK b \in BOOLEAN : /\ asked => b
                            /\ proc' = [proc EXCEPT ![p].pc = "store", ![p].consent = b]
    <3>1. asked \in BOOLEAN  OBVIOUS
    <3> HIDE DEF asked
    <3> QED  BY <2>1, <3>1, Zenon
  <2>3. /\ proc' \in [Procs -> ProcType]
        /\ proc'[p].pc = "store" /\ proc'[p].cmd = proc[p].cmd
        /\ proc'[p].fresh = proc[p].fresh /\ proc'[p].secret = proc[p].secret
        /\ proc'[p].consent = b
        /\ \A q \in Procs \ {p} : proc'[q] = proc[q]
    <3>1. "store" \in Pcs  BY DEF Pcs
    <3> QED  BY <2>2, <3>1 DEF IInv, Types, ProcType
  <2>4. /\ proc[p].cmd = "login" /\ auth \in StaticSecret /\ proc[p].secret # NoSecret
        /\ key # NoSecret => asked
    BY <1>1 DEF IInv, Local, Position, KeyHeld, Consented
  <2>5. Consented(p)'  BY <1>1, <2>1, <2>2, <2>3, <2>4, NoChildFacts DEF Consented
  <2>6. Local(p)'  BY <1>1, <2>1, <2>3, <2>4, <2>5, LoginLocal
  <2> QED  BY <1>1, <2>1, <2>3, <2>6, HolderStep DEF IInv, Types, NothingStored
<1> QED  BY <1>2, <1>3

LEMMA StoreKeeps ==
  ASSUME IInv, NEW p \in Procs, Store(p)
  PROVE  IInv'
<1>1. proc[p].pc = "store" /\ child[p] = NoChild /\ ~Resting(p)
  BY StartFacts DEF Store, Resting, Polling
<1>2. /\ proc[p].cmd = "login" /\ auth \in StaticSecret
      /\ proc[p].secret \in Creds /\ proc[p].secret # NoSecret
  BY <1>1 DEF IInv, Local, Position, KeyHeld, Types, ProcType
<1>3. /\ auth' = auth /\ cache' = cache /\ holder' = holder
      /\ child' = child /\ watch' = watch /\ strayed' = strayed
  BY DEF Store, outside
<1>4. \/ key' = proc[p].secret /\ auth \in CodexStatic /\ Goto(p, "static_login")
      \/ key' = proc[p].secret /\ auth \notin CodexStatic /\ End(p, "ok")
      \/ key' \in {key, proc[p].secret} /\ End(p, "error")
  BY DEF Store
<1>5. key' \in Creds  BY <1>2, <1>4 DEF IInv, Types
<1>6. CASE key' = proc[p].secret /\ auth \in CodexStatic /\ Goto(p, "static_login")
  <2>1. "static_login" \in Pcs  BY DEF Pcs
  <2>2. Types'  BY <1>3, <1>5, <1>6, <2>1, GotoStep DEF IInv, Types
  <2>3. Local(p)'
    BY <1>1, <1>2, <1>3, <1>6, <2>1, GotoStep, NoChildFacts DEF IInv, Local, Position,
       ChildPlaced, KeyHeld, KeyRead, CacheHeld, Ended, ResultTrue, Consented, Polling
  <2> QED  BY <1>1, <1>2, <1>3, <1>6, <2>1, <2>2, <2>3, GotoStep, HolderStep
       DEF IInv, NothingStored
<1>7. CASE key' = proc[p].secret /\ auth \notin CodexStatic /\ End(p, "ok")
  <2>1. Types'  BY <1>3, <1>5, <1>7, EndStep DEF IInv, Types
  <2>2. Local(p)'
    BY <1>1, <1>2, <1>3, <1>7, EndStep, NoChildFacts DEF IInv, Local, Position,
       ChildPlaced, KeyHeld, KeyRead, CacheHeld, Ended, ResultTrue, Consented, Polling
  <2> QED  BY <1>1, <1>2, <1>3, <1>7, <2>1, <2>2, EndStep, HolderStep DEF IInv, NothingStored
<1>8. CASE key' \in {key, proc[p].secret} /\ End(p, "error")
  <2>1. Types'  BY <1>3, <1>5, <1>8, EndStep DEF IInv, Types
  <2>2. Local(p)'
    BY <1>1, <1>2, <1>3, <1>8, EndStep, NoChildFacts DEF IInv, Local, Position,
       ChildPlaced, KeyHeld, CacheHeld, Ended, ResultTrue, Consented, Polling
  <2> QED  BY <1>1, <1>2, <1>3, <1>8, <2>1, <2>2, EndStep, HolderStep DEF IInv, NothingStored
<1> QED  BY <1>4, <1>6, <1>7, <1>8

LEMMA DeleteKeeps ==
  ASSUME IInv, NEW p \in Procs, Delete(p)
  PROVE  IInv'
<1>1. proc[p].pc = "delete" /\ child[p] = NoChild /\ ~Resting(p)
  BY StartFacts DEF Delete, Resting, Polling
<1>2. /\ proc[p].cmd = "logout"
      /\ auth \in Codex => CacheIs(NoSecret)
  BY <1>1 DEF IInv, Local, Position, CacheHeld
<1>3. /\ auth' = auth /\ cache' = cache /\ holder' = holder
      /\ child' = child /\ watch' = watch /\ strayed' = strayed
  BY DEF Delete, outside
<1>4. \/ key' = NoSecret /\ End(p, "ok")
      \/ auth \in StaticSecret /\ key' = key /\ End(p, "error")
  BY DEF Delete, IInv, NothingStored
<1>5. key' \in Creds  BY <1>4 DEF IInv, Types, Creds
<1>6. CASE key' = NoSecret /\ End(p, "ok")
  <2>1. Types'  BY <1>3, <1>5, <1>6, EndStep DEF IInv, Types
  <2>2. Local(p)'
    BY <1>1, <1>2, <1>3, <1>6, EndStep, NoChildFacts DEF IInv, Local, Position,
       ChildPlaced, KeyHeld, CacheHeld, CacheIs, Ended, ResultTrue, Consented, Polling
  <2> QED  BY <1>1, <1>3, <1>6, <2>1, <2>2, EndStep, HolderStep DEF IInv, NothingStored
<1>7. CASE auth \in StaticSecret /\ key' = key /\ End(p, "error")
  <2>1. Types'  BY <1>3, <1>5, <1>7, EndStep DEF IInv, Types
  <2>2. Local(p)'
    BY <1>1, <1>2, <1>3, <1>7, EndStep, NoChildFacts DEF IInv, Local, Position,
       ChildPlaced, KeyHeld, CacheHeld, Ended, ResultTrue, Consented, Polling
  <2> QED  BY <1>1, <1>3, <1>7, <2>1, <2>2, EndStep, HolderStep DEF IInv, NothingStored
<1> QED  BY <1>4, <1>6, <1>7


-----------------------------------------------------------------------------
(* Locks, ends and crashes.                                                *)

\* While nobody holds the lock every process is at rest.
LEMMA NobodyHolds ==
  ASSUME IInv, holder = NoProc
  PROVE  \A q \in Procs : Resting(q) /\ child[q] = NoChild
BY ProcsAssumption DEF IInv, Holding, Local, ChildPlaced, Resting, Polling

\* A process takes the lock and starts.
LEMMA TakeKeeps ==
  ASSUME IInv, NEW p \in Procs, holder = NoProc, holder' = p, auth' = auth, key' = key,
         child' = child, watch' = watch, proc' \in [Procs -> ProcType],
         proc'[p].pc = "start", \A q \in Procs \ {p} : proc'[q] = proc[q]
  PROVE  IInv'
<1>1. \A q \in Procs \ {p} : Local(q)'  BY NobodyHolds, RestingLocal DEF Resting
<1>2. child'[p] = NoChild  BY NobodyHolds
<1>3. Local(p)'
  BY <1>2, NoChildFacts DEF Local, Position, ChildPlaced, KeyHeld, CacheHeld, Ended,
     ResultTrue, Consented, Polling
<1> QED  BY <1>1, <1>3, NobodyHolds DEF IInv, Types, Holding, Resting, NothingStored

LEMMA BeginKeeps ==
  ASSUME IInv, NEW p \in Procs, Begin(p)
  PROVE  IInv'
<1>1. PICK cmd \in Commands, nonint \in BOOLEAN, generate \in BOOLEAN :
        proc' = [proc EXCEPT ![p] = [Idle EXCEPT !.pc = "start", !.cmd = cmd,
                                        !.nonint = nonint, !.generate = generate]]
  BY DEF Begin
<1> DEFINE r == [Idle EXCEPT !.pc = "start", !.cmd = cmd, !.nonint = nonint,
                             !.generate = generate]
<1>2. r \in ProcType /\ r.pc = "start"
  BY DEF Idle, ProcType, Pcs, Creds
<1> HIDE DEF r
<1>3. /\ proc' \in [Procs -> ProcType] /\ proc'[p].pc = "start"
      /\ \A q \in Procs \ {p} : proc'[q] = proc[q]
  BY <1>1, <1>2 DEF IInv, Types, r
<1> QED  BY <1>3, TakeKeeps DEF Begin

LEMMA LockKeeps ==
  ASSUME IInv, NEW p \in Procs, Lock(p)
  PROVE  IInv'
<1>1. "start" \in Pcs /\ Goto(p, "start")  BY DEF Pcs, Lock
<1>2. /\ proc' \in [Procs -> ProcType] /\ proc'[p].pc = "start"
      /\ \A q \in Procs \ {p} : proc'[q] = proc[q]
  BY <1>1, GotoStep DEF IInv
<1> QED  BY <1>2, TakeKeeps DEF Lock

\* A process comes to rest, or stays there; the others are as they were.
LEMMA RestKeeps ==
  ASSUME IInv, NEW p \in Procs, auth' = auth, key' = key, cache' = cache,
         strayed' = strayed, holder' = IF holder = p THEN NoProc ELSE holder,
         watch' \in [Procs -> WatchType], proc' \in [Procs -> ProcType],
         child' \in [Procs -> ChildType],
         proc'[p].pc \in {"idle", "lock"}, child'[p] = NoChild,
         \A q \in Procs \ {p} : proc'[q] = proc[q] /\ child'[q] = child[q]
                                /\ watch'[q] = watch[q]
  PROVE  IInv'
<1>1. \A q \in Procs \ {p} : Local(q)'  BY KeptLocal DEF IInv
<1>2. Local(p)'  BY RestingLocal
<1>3. Holding'  BY DEF IInv, Holding, Resting
<1> QED  BY <1>1, <1>2, <1>3 DEF IInv, Types, NothingStored

LEMMA IdleType == Idle \in ProcType /\ Idle.pc = "idle"
BY DEF Idle, ProcType, Pcs, Creds

LEMMA NoWatchType == NoWatch \in WatchType
BY DEF NoWatch, WatchType, Jobs

LEMMA CreateKeeps ==
  ASSUME IInv, NEW p \in Procs, Create(p)
  PROVE  IInv'
<1> DEFINE r == [Idle EXCEPT !.pc = "lock", !.cmd = "login", !.fresh = TRUE,
                             !.generate = TRUE]
<1>1. proc' = [proc EXCEPT ![p] = r] /\ proc[p].pc = "idle"  BY DEF Create
<1>2. r \in ProcType /\ r.pc = "lock"
  <2>1. \A i \in ProcType, b \in BOOLEAN :
          LET d == [i EXCEPT !.pc = "lock", !.cmd = "login", !.fresh = b, !.generate = b]
          IN  d \in ProcType /\ d.pc = "lock"
    BY DEF ProcType, Pcs, Commands
  <2> QED  BY <2>1, IdleType, TRUE \in BOOLEAN, Zenon
<1> HIDE DEF r
<1>3. child[p] = NoChild  BY <1>1, StartFacts DEF Polling
<1>4. /\ proc' \in [Procs -> ProcType] /\ proc'[p].pc = "lock"
      /\ \A q \in Procs \ {p} : proc'[q] = proc[q]
  BY <1>1, <1>2 DEF IInv, Types
<1>5. /\ auth' = auth /\ key' = key /\ cache' = cache /\ holder' = holder
      /\ child' = child /\ watch' = watch /\ strayed' = strayed
  BY DEF Create, outside
<1>6. \A q \in Procs \ {p} : Local(q)'  BY <1>4, <1>5, KeptLocal DEF IInv
<1>7. Local(p)'  BY <1>3, <1>4, <1>5, RestingLocal
<1> QED  BY <1>4, <1>5, <1>6, <1>7 DEF IInv, Types, Holding, Resting, NothingStored

LEMMA LeaveKeeps ==
  ASSUME IInv, NEW p \in Procs, Leave(p)
  PROVE  IInv'
<1>1. proc[p].pc = "done" /\ proc' = [proc EXCEPT ![p] = Idle] /\ holder' = NoProc
  BY DEF Leave
<1>2. child[p] = NoChild  BY <1>1, StartFacts DEF Polling
<1>3. holder = p  BY <1>1 DEF IInv, Holding, Resting
<1>4. /\ auth' = auth /\ key' = key /\ cache' = cache
      /\ child' = child /\ watch' = watch /\ strayed' = strayed
  BY DEF Leave, outside
<1>5. /\ proc' \in [Procs -> ProcType] /\ proc'[p].pc = "idle"
      /\ \A q \in Procs \ {p} : proc'[q] = proc[q]
  BY <1>1, IdleType DEF IInv, Types
<1> QED  BY <1>1, <1>2, <1>3, <1>4, <1>5, RestKeeps DEF IInv, Types

LEMMA KillKeeps ==
  ASSUME IInv, NEW p \in Procs, Kill(p)
  PROVE  IInv'
<1>1. /\ proc' = [proc EXCEPT ![p] = Idle]
      /\ child' = [child EXCEPT ![p] = NoChild] /\ watch' = [watch EXCEPT ![p] = NoWatch]
      /\ auth' = auth /\ key' = key /\ cache' = cache /\ strayed' = strayed
      /\ holder' = IF holder = p THEN NoProc ELSE holder
  BY DEF Kill
<1>2. /\ proc' \in [Procs -> ProcType] /\ proc'[p].pc = "idle"
      /\ child' \in [Procs -> ChildType] /\ child'[p] = NoChild
      /\ watch' \in [Procs -> WatchType]
      /\ \A q \in Procs \ {p} : /\ proc'[q] = proc[q] /\ child'[q] = child[q]
                                /\ watch'[q] = watch[q]
  BY <1>1, IdleType, NoChildFacts, NoWatchType DEF IInv, Types
<1> QED  BY <1>1, <1>2, RestKeeps

-----------------------------------------------------------------------------
(* Children end.                                                           *)

LEMMA ChildEndsKeeps ==
  ASSUME IInv, NEW p \in Procs, ChildEnds(p)
  PROVE  IInv'
<1>1. PICK code \in {0, 1} :
        /\ EndsWith(child[p], code)
        /\ child' = [child EXCEPT ![p].alive = FALSE, ![p].code = code]
        /\ cache' = CacheAfter(child[p].job, child[p].secret, code)
        /\ strayed' = (strayed /\ ~Writes(child[p], code))
  BY DEF ChildEnds
<1>2. /\ child[p].alive
      /\ auth' = auth /\ key' = key /\ holder' = holder /\ proc' = proc /\ watch' = watch
  BY DEF ChildEnds
<1>3. proc[p].pc \in Polling \union {"pipe", "wait"}
  <2>1. ~NoChild.alive  BY DEF NoChild
  <2> QED  BY <1>2, <2>1 DEF IInv, Local, ChildPlaced
<1>4. ~Resting(p)  BY <1>3 DEF Resting, Polling
<1>5. strayed /\ ~Writes(child[p], code) => strayed'  BY <1>1, Zenon
<1>6. PICK b \in BOOLEAN : /\ ~b
                           /\ child' = [child EXCEPT ![p].alive = b, ![p].code = code]
  BY <1>1, FALSE \in BOOLEAN, Zenon
<1>7. /\ child' \in [Procs -> ChildType]
      /\ child'[p].job = child[p].job /\ child'[p].secret = child[p].secret
      /\ child'[p].code = code /\ ~child'[p].alive
      /\ \A q \in Procs \ {p} : child'[q] = child[q]
  BY <1>6 DEF IInv, Types, ChildType
<1>8. child[p].job \in {"main", "route", "status", "setup", "none"} =>
         \A v : CacheIs(v) => CacheIs(v)'
  <2>1. child[p].job \in {"main", "route", "status", "setup", "none"} =>
           cache' = cache /\ ~Writes(child[p], code)
    BY <1>1 DEF CacheAfter, Writes
  <2> QED  BY <1>5, <2>1 DEF CacheIs
<1>9. child[p].job = "static_login" /\ code = 0 => CacheIs(key)'
  <2> SUFFICES ASSUME child[p].job = "static_login", code = 0 PROVE CacheIs(key)'
    OBVIOUS
  <2>1. child[p].secret # NoSecret  BY <1>1 DEF EndsWith
  <2>2. child[p].secret = key  BY <2>1 DEF IInv, Local, KeyHeld
  <2> QED  BY <1>1, <1>2, <2>2 DEF CacheAfter, CacheIs
<1>10. child[p].job = "logout" /\ code = 0 => CacheIs(NoSecret)'
  BY <1>1 DEF CacheAfter, CacheIs
<1>11. Position(p)' /\ ChildPlaced(p)'
  BY <1>2, <1>3, <1>7, NoChildFacts DEF IInv, Local, Position, ChildPlaced, Polling, NoChild
<1>12. KeyHeld(p)'
  BY <1>2, <1>7 DEF IInv, Local, KeyHeld, KeyRead
<1>13. CacheHeld(p)'
  <2>1. auth \in CodexStatic /\ child[p].job = "main" => key # NoSecret /\ CacheIs(key)'
    BY <1>2, <1>8 DEF IInv, Local, CacheHeld, CacheIs
  <2>2. proc[p].pc \notin {"main", "delete"}  BY <1>3 DEF Polling
  <2> QED  BY <1>2, <1>7, <1>9, <1>10, <2>1, <2>2 DEF CacheHeld, CacheIs, Ended
<1>14. ResultTrue(p)' /\ Consented(p)'
  BY <1>2, <1>3, <1>7 DEF IInv, Local, ResultTrue, Consented, Polling
<1> QED  BY <1>2, <1>4, <1>7, <1>11, <1>12, <1>13, <1>14, HolderStep
     DEF IInv, Types, Local, NothingStored

\* A child without a wrapper writes the cache and is remembered for it.
LEMMA OrphanEndsKeeps ==
  ASSUME IInv, OrphanEnds
  PROVE  IInv'
<1>1. PICK c \in orphans, code \in {0, 1} :
        /\ cache' = CacheAfter(c.job, c.secret, code)
        /\ strayed' = (strayed \/ Writes(c, code))
  BY DEF OrphanEnds
<1>2. /\ auth' = auth /\ key' = key /\ holder' = holder /\ proc' = proc
      /\ child' = child /\ watch' = watch
  BY DEF OrphanEnds
<1>3. strayed \/ Writes(c, code) => strayed'  BY <1>1, Zenon
<1>4. \A v : CacheIs(v) => CacheIs(v)'
  <2>1. cache' = cache \/ Writes(c, code)  BY <1>1 DEF CacheAfter, Writes
  <2> QED  BY <1>3, <2>1 DEF CacheIs
<1>5. \A q \in Procs : Local(q)'
  <2> SUFFICES ASSUME NEW q \in Procs PROVE Local(q)'  OBVIOUS
  <2>1. Position(q)' /\ ChildPlaced(q)' /\ KeyHeld(q)' /\ Consented(q)'
    BY <1>2 DEF IInv, Local, Position, ChildPlaced, KeyHeld, KeyRead, Consented
  <2>2. CacheIs(key) => CacheIs(key)'  BY <1>2, <1>4 DEF CacheIs
  <2>3. CacheIs(NoSecret) => CacheIs(NoSecret)'  BY <1>4
  <2>4. CacheHeld(q)' /\ ResultTrue(q)'
    BY <1>2, <2>2, <2>3 DEF IInv, Local, CacheHeld, CacheIs, Ended, ResultTrue, KeyRead
  <2> QED  BY <2>1, <2>4 DEF Local
<1> QED  BY <1>2, <1>5 DEF IInv, Types, Holding, Resting, NothingStored

-----------------------------------------------------------------------------
(* Every step keeps the invariant.                                         *)

LEMMA NextInv == IInv /\ [Next]_vars => IInv'
<1> SUFFICES ASSUME IInv, [Next]_vars PROVE IInv'  OBVIOUS
<1>1. CASE UNCHANGED vars
  BY <1>1, AsideKeeps DEF vars, outside, IInv, Types
<1>2. CASE OrphanEnds  BY <1>2, OrphanEndsKeeps
<1>3. ASSUME NEW p \in Procs, Command(p) PROVE IInv'
  BY <1>3, RefusedKeeps, StartRunKeeps, StartLoginKeeps, StartLogoutKeeps, StartCheckKeeps,
     SpawnRouteKeeps, SpawnSetupKeeps, SpawnStaticLoginKeeps, WriteSecretKeeps, SpawnMainKeeps
  DEF Command
<1>4. ASSUME NEW p \in Procs, Credential(p) PROVE IInv'
  BY <1>4, ReadKeyKeeps, ConfirmKeeps, PromptKeeps, RecheckKeeps, StoreKeeps, DeleteKeeps
  DEF Credential
<1>5. ASSUME NEW p \in Procs, Preflight(p) PROVE IInv'
  BY <1>5, PollStatusKeeps, WaitFailsKeeps, PollOutputKeeps, PollDeadlineKeeps, LateKeeps
  DEF Preflight
<1>6. ASSUME NEW p \in Procs,
             \/ Begin(p) \/ Create(p) \/ Lock(p) \/ Leave(p) \/ Verdict(p) \/ Reader(p)
             \/ Wait(p) \/ WaitFails(p) \/ Forward(p) \/ Signal(p) \/ ChildEnds(p)
             \/ Kill(p)
      PROVE IInv'
  BY <1>6, BeginKeeps, CreateKeeps, LockKeeps, LeaveKeeps, VerdictKeeps, ReaderKeeps,
     WaitKeeps, WaitFailsKeeps, ForwardKeeps, SignalKeeps, ChildEndsKeeps, KillKeeps
<1> QED  BY <1>1, <1>2, <1>3, <1>4, <1>5, <1>6 DEF Next

(* The inductive invariant, for any number of processes and credentials.   *)
THEOREM Invariance == Spec => []IInv
<1> QED  BY InitInv, NextInv, PTL DEF Spec

(* MainHasStored: the vendor process of a run works with what is stored.   *)
THEOREM MainAlwaysHasStored == Spec => []MainHasStored
<1> QED  BY Invariance, InvGivesMain, PTL

(* ResultsTrue: a login or logout that reports success has done its work.  *)
THEOREM ResultsAlwaysTrue == Spec => []ResultsTrue
<1> QED  BY Invariance, InvGivesResults, PTL

(* ChildrenReaped: a command that returned left no vendor process behind.  *)
THEOREM ChildrenAlwaysReaped == Spec => []ChildrenReaped
<1> QED  BY Invariance, InvGivesReaped, PTL

-----------------------------------------------------------------------------
(* Only storing and deleting change the keyring entry.                     *)

LEMMA CommandKey ==
  ASSUME IInv, NEW p \in Procs, Command(p)
  PROVE  key' = key
<1>1. auth \in Auths  BY DEF IInv, Types
<1>2. LoginFor(p) /\ auth # "codex_wif" => key' = key
  BY <1>1 DEF LoginFor, Continue, SpawnOauth, Start, Return, StaticSecret, ClaudeStatic,
     CodexStatic, Auths, Wif
<1>3. StartLogin(p) => key' = key  BY <1>2 DEF StartLogin, Return
<1>4. StartRun(p) => key' = key
  BY DEF StartRun, Return, SpawnStatus, Start, Continue
<1>5. StartCheck(p) => key' = key
  BY DEF StartCheck, Return, SpawnStatus, Start, Continue
<1>6. StartLogout(p) => key' = key
  BY DEF StartLogout, Return, SpawnLogout, Start, Continue
<1> QED
  BY <1>3, <1>4, <1>5, <1>6 DEF Command, Refused, Return, SpawnRoute, SpawnSetup,
     SpawnStaticLogin, WriteSecret, SpawnMain, Abandon, Start

LEMMA StepKey ==
  ASSUME IInv, Next
  PROVE  key' = key \/ \E p \in Procs : Store(p) \/ Delete(p)
<1>1. ASSUME NEW p \in Procs, Preflight(p) PROVE key' = key
  BY <1>1 DEF Preflight, PollStatus, TryWaitFails, PollOutput, PollDeadline, Late, Abandon
<1>2. ASSUME NEW p \in Procs, ReadKey(p) \/ Confirm(p) \/ Prompt(p) \/ Recheck(p)
      PROVE key' = key
  BY <1>2 DEF ReadKey, Confirm, Prompt, Recheck, Return
<1>3. ASSUME NEW p \in Procs,
             \/ Begin(p) \/ Create(p) \/ Lock(p) \/ Leave(p) \/ Verdict(p) \/ Reader(p)
             \/ Wait(p) \/ WaitFails(p) \/ Forward(p) \/ Signal(p) \/ ChildEnds(p)
             \/ Kill(p)
      PROVE key' = key
  BY <1>3 DEF Begin, Create, Lock, Leave, Verdict, Reader, Wait, WaitFails, Abandon, Forward,
     Signal, ChildEnds, Kill
<1>4. OrphanEnds => key' = key  BY DEF OrphanEnds
<1> QED  BY <1>1, <1>2, <1>3, <1>4, CommandKey DEF Next, Credential

LEMMA StepConsented ==
  ASSUME IInv, Next, key # NoSecret, key' \notin {key, NoSecret}
  PROVE  \E p \in Procs : proc[p].pc = "store" /\ proc[p].consent
<1>1. ~\E p \in Procs : Delete(p)  BY DEF Delete
<1>2. PICK p \in Procs : Store(p)  BY <1>1, StepKey
<1>3. proc[p].pc = "store"  BY <1>2 DEF Store
<1>4. proc[p].consent  BY <1>3 DEF IInv, Local, Consented
<1> QED  BY <1>3, <1>4

(* ReplacementConsented: a stored credential is only replaced by a login   *)
(* that asked about this one.                                              *)
THEOREM ReplacementsConsented == Spec => ReplacementConsented
<1>1. IInv /\ [Next]_vars =>
        [(key # NoSecret /\ key' \notin {key, NoSecret})
           => \E p \in Procs : proc[p].pc = "store" /\ proc[p].consent]_vars
  BY StepConsented
<1> QED  BY <1>1, Invariance, PTL DEF Spec, ReplacementConsented
=============================================================================
