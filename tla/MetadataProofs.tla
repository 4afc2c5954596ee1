---------------------------- MODULE MetadataProofs ----------------------------
(***************************************************************************)
(* Theorems about Metadata, for any number of processes, profiles,         *)
(* contexts, directories and commands: what is on disk can always be read  *)
(* back, identities are persisted before use, a selection changes as shown.*)
(***************************************************************************)
EXTENDS Metadata, WellFoundedInduction, TLAPS

-----------------------------------------------------------------------------
(* The inductive invariant.                                                *)

Fields == {"version", "inst", "default", "confirm", "retired", "profiles",
           "contexts", "bindings"}
IsConfig(c) == DOMAIN c = Fields

Shapes == /\ IsConfig(config)
          /\ DOMAIN proc = Procs /\ DOMAIN held = Procs
          /\ \A p \in Procs : DOMAIN proc[p] = {"pc", "req", "active"}

\* The files, before the first command and after.
Files == /\ config.version \in {0, 1, 2}
         /\ config.version = 0 => state.active = NoName
         /\ config.version = 1 => config \in Stores /\ state.active = NoName
         /\ config.version = 2 => Valid(config) /\ StateValid(config, state.active)

\* A request for an activation keeps what its confirmation was given on.
ShownIs(r) == \/ r.consent = AnyChange
              \/ r.consent = NoChange
              \/ \E a, b, s, t : /\ r.consent = [any |-> FALSE, change |-> <<a, b, s, t>>]
                                 /\ r.shown = <<s, t>>
Asked(p) == proc[p].pc = "asked" /\ proc[p].req.kind = "use" => ShownIs(proc[p].req)

\* ActivationConfirmed for a change of the active context from old to new.
Confirms(r, c, old, new) ==
    \/ ~ c.confirm \/ r.consent = AnyChange
    \/ SelectionOf(c, Global(c, old)) = SelectionOf(c, new)
    \/ Global(c, old) = NoName
    \/ r.shown = <<SelectionOf(c, Global(c, old)), SelectionOf(c, new)>>

\* Between the files: what is still to be written fits what has been.
Activates(r, c, old, new) ==
    r.kind = "use" /\ new = r.target /\ Confirms(r, c, old, new)
Between(p) ==
    proc[p].pc = "state" =>
        /\ config.version = 2
        /\ StateValid(config, proc[p].active)
        /\ \/ proc[p].active = state.active
           \/ Activates(proc[p].req, config, state.active, proc[p].active)
Alone == \A p, q \in Procs : proc[p].pc = "state" /\ proc[q].pc = "state" => p = q

IInv == /\ Shapes /\ Files /\ Alone /\ IdentityPersisted
        /\ \A p \in Procs : Asked(p) /\ Between(p)

LEMMA EmptyFacts ==
  ASSUME NEW inst
  PROVE  /\ IsConfig(NewConfig(inst)) /\ NewConfig(inst).version = 2
         /\ Valid(NewConfig(inst)) /\ StateValid(NewConfig(inst), NoName)
<1>1. IsConfig(NewConfig(inst))  BY DEF IsConfig, NewConfig, Fields
<1>2. /\ NewConfig(inst).version = 2
      /\ NewConfig(inst).default = NoName
      /\ NewConfig(inst).profiles = [id \in Ids |-> NoProfile]
      /\ NewConfig(inst).contexts = [n \in Names |-> NoContext]
      /\ NewConfig(inst).bindings = [d \in Paths |-> NoName]
  BY DEF NewConfig
<1> DEFINE c == NewConfig(inst)
<1>3. c.version = 2 /\ c.default = NoName
  BY <1>2
<1>4. ProfilesOf(c) = {}  BY <1>2 DEF ProfilesOf
<1>5. SlotsValid(c)  BY <1>2 DEF SlotsValid, NoContext
<1>6. BindingsValid(c)  BY <1>2 DEF BindingsValid
<1>7. ProfilesValid(c)  BY <1>4 DEF ProfilesValid
<1> QED  BY <1>1, <1>3, <1>5, <1>6, <1>7 DEF Valid, StateValid

LEMMA InitInv == Init => IInv
<1> SUFFICES ASSUME Init PROVE IInv  OBVIOUS
<1>1. NoConfig.version = 0 /\ IsConfig(NoConfig)
  BY EmptyFacts DEF NoConfig, IsConfig, Fields
<1>2. state.active = NoName  BY DEF Init
<1>3. Shapes
  <2>1. IsConfig(config)  BY <1>1, StoresAssumption DEF Init, IsConfig
  <2> QED  BY <2>1 DEF Init, Shapes, Idle
<1>4. Files
  <2>1. CASE config = NoConfig  BY <1>1, <1>2, <2>1 DEF Files
  <2>2. CASE config \in Stores
    <3>1. CASE config.version = 1  BY <1>2, <2>2, <3>1 DEF Files
    <3>2. CASE config.version # 1
      <4>1. Valid(config)  BY <2>2, <3>2, StoresAssumption DEF Decoded
      <4> QED  BY <1>2, <4>1 DEF Files, Valid, StateValid
    <3> QED  BY <3>1, <3>2
  <2> QED  BY <2>1, <2>2 DEF Init
<1>5. \A p \in Procs : proc[p].pc = "idle" /\ held[p] = NoInstallation
  BY DEF Init, Idle
<1> QED  BY <1>3, <1>4, <1>5 DEF IInv, Alone, IdentityPersisted, Asked, Between

-----------------------------------------------------------------------------
(* Reading.                                                                *)

LEMMA ReadsFacts ==
  ASSUME IInv, NEW c, Reads(c)
  PROVE  /\ IsConfig(c) /\ Valid(c) /\ c.version = 2
         /\ StateValid(c, state.active)
         /\ config.version = 2 => c = config
         /\ \A q \in Procs : proc[q].pc # "state"
<1>1. config.version = 2 => c = config  BY DEF Reads, Decoded
<1>2. config.version = 1 => IsConfig(c)
  BY DEF Reads, Decoded, Upgraded, IInv, Shapes, IsConfig
<1>3. IsConfig(c)  BY <1>1, <1>2 DEF Reads, IInv, Files, Shapes
<1> QED  BY <1>1, <1>3 DEF Reads, Locked, Valid

\* A process that goes back to rest.
LEMMA FinishStep ==
  ASSUME Shapes, NEW p \in Procs, Finish(p)
  PROVE  /\ DOMAIN proc' = Procs
         /\ \A q \in Procs : DOMAIN proc'[q] = {"pc", "req", "active"}
         /\ proc'[p].pc = "idle"
         /\ \A q \in Procs \ {p} : proc'[q] = proc[q]
<1>1. DOMAIN Idle = {"pc", "req", "active"} /\ Idle.pc = "idle"  BY DEF Idle
<1> QED  BY <1>1 DEF Finish, Shapes

-----------------------------------------------------------------------------
(* Writing.                                                                *)

LEMMA ConfigKeeps ==
  ASSUME IInv, NEW p \in Procs, NEW c, Reads(c), NEW new, IsConfig(new),
         new.inst = c.inst, UpdateConfig(p, new)
  PROVE  IInv'
<1>1. /\ config' = new /\ state' = state /\ held' = held /\ Finish(p)
      /\ Valid(new) /\ StateValid(new, state.active)
  BY DEF UpdateConfig
<1>2. new.version = 2  BY <1>1 DEF Valid
<1>3. Shapes'  BY <1>1, FinishStep DEF IInv, Shapes
<1>4. Files'  BY <1>1, <1>2 DEF Files
<1>5. \A q \in Procs : proc'[q].pc # "state"
  BY <1>1, FinishStep, ReadsFacts DEF IInv
<1>6. IdentityPersisted'
  BY <1>1, <1>2, ReadsFacts DEF IInv, IdentityPersisted
<1>7. \A q \in Procs : Asked(q)'  BY <1>1, FinishStep DEF IInv, Asked
<1> QED  BY <1>3, <1>4, <1>5, <1>6, <1>7 DEF IInv, Alone, Between

\* UpdateMetadata goes to rest, or on to the state file.
LEMMA StateStep ==
  ASSUME Shapes, NEW p \in Procs, NEW active,
         proc' = [proc EXCEPT ![p].pc = "state", ![p].active = active]
  PROVE  /\ DOMAIN proc' = Procs
         /\ \A q \in Procs : DOMAIN proc'[q] = {"pc", "req", "active"}
         /\ proc'[p].pc = "state" /\ proc'[p].active = active
         /\ proc'[p].req = proc[p].req
         /\ \A q \in Procs \ {p} : proc'[q] = proc[q]
BY DEF Shapes

LEMMA MetadataKeeps ==
  ASSUME IInv, NEW p \in Procs, NEW c, Reads(c), NEW new, IsConfig(new),
         new.inst = c.inst, NEW active, UpdateMetadata(p, c, new, active),
         StateValid(new, state.active),
         \/ active = state.active
         \/ Activates(proc[p].req, new, state.active, active)
  PROVE  IInv'
<1>1. held' = held /\ Valid(new) /\ StateValid(new, active)
  BY DEF UpdateMetadata
<1>2. new.version = 2  BY <1>1 DEF Valid
<1>3. CASE Migrated \/ new # c
  <2>1. config' = new /\ state' = state
    BY <1>3 DEF UpdateMetadata
  <2>2. Files' /\ IsConfig(config)'  BY <1>1, <1>2, <2>1 DEF Files, IsConfig
  <2>3. IdentityPersisted'
    BY <1>1, <1>2, <2>1, ReadsFacts DEF IInv, IdentityPersisted
  <2>4. CASE Finish(p)
    <3>1. \A q \in Procs : proc'[q].pc # "state"
      BY <2>4, FinishStep, ReadsFacts DEF IInv
    <3>2. \A q \in Procs : Asked(q)'  BY <2>4, FinishStep DEF IInv, Asked
    <3> QED  BY <1>1, <2>2, <2>3, <2>4, <3>1, <3>2, FinishStep
         DEF IInv, Shapes, Alone, Between
  <2>5. CASE proc' = [proc EXCEPT ![p].pc = "state", ![p].active = active]
    <3>1. \A q \in Procs \ {p} : proc'[q].pc # "state"
      BY <2>5, StateStep, ReadsFacts DEF IInv
    <3>2. \A q \in Procs : Asked(q)'  BY <2>5, StateStep DEF IInv, Asked
    <3>3. Between(p)'
      <4>1. /\ proc'[p].active = active /\ proc'[p].req = proc[p].req
            /\ config' = new /\ state' = state
        BY <2>1, <2>5, StateStep DEF IInv
      <4>2. (\/ proc[p].active = state.active
             \/ Activates(proc[p].req, config, state.active, proc[p].active))'
        BY <4>1, Zenon DEF Activates, Confirms
      <4>3. StateValid(config, proc[p].active)'  BY <1>1, <4>1 DEF StateValid
      <4> QED  BY <1>2, <2>1, <4>2, <4>3 DEF Between
    <3> QED  BY <1>1, <2>2, <2>3, <2>5, <3>1, <3>2, <3>3, StateStep
         DEF IInv, Shapes, Alone, Between
  <2> QED  BY <1>3, <2>4, <2>5 DEF UpdateMetadata
<1>4. CASE ~(Migrated \/ new # c)
  <2>1. config' = config /\ Finish(p) /\ c = config /\ new = config
    BY <1>4, ReadsFacts DEF UpdateMetadata, IInv, Files, Migrated, Reads
  <2>2. state' = state \/ state'.active = active
    BY <1>4 DEF UpdateMetadata
  <2>3. Files'
    BY <1>1, <1>2, <2>1, <2>2 DEF IInv, Files
  <2>4. \A q \in Procs : proc'[q].pc # "state"
    BY <2>1, FinishStep, ReadsFacts DEF IInv
  <2>5. \A q \in Procs : Asked(q)'  BY <2>1, FinishStep DEF IInv, Asked
  <2> QED  BY <1>1, <2>1, <2>3, <2>4, <2>5, FinishStep
       DEF IInv, Shapes, Alone, Between, IdentityPersisted, IsConfig
<1> QED  BY <1>3, <1>4

LEMMA WriteStateKeeps ==
  ASSUME IInv, NEW p \in Procs, WriteState(p)
  PROVE  IInv'
<1>1. /\ proc[p].pc = "state" /\ config' = config /\ held' = held /\ Finish(p)
      /\ state' = state \/ state'.active = proc[p].active
  BY DEF WriteState
<1>2. Files'  BY <1>1 DEF IInv, Files, Between
<1>3. \A q \in Procs : proc'[q].pc # "state"
  BY <1>1, FinishStep DEF IInv, Alone
<1>4. \A q \in Procs : Asked(q)'  BY <1>1, FinishStep DEF IInv, Asked
<1> QED  BY <1>1, <1>2, <1>3, <1>4, FinishStep
     DEF IInv, Shapes, Alone, Between, IdentityPersisted, IsConfig

LEMMA CancelKeeps ==
  ASSUME IInv, NEW p \in Procs, Cancel(p)
  PROVE  IInv'
<1>1. config' = config /\ state' = state /\ Finish(p)  BY DEF Cancel
<1>2. /\ DOMAIN held' = Procs
      /\ \A q \in Procs : held'[q] \in {held[q], NoInstallation}
  BY DEF Cancel, IInv, Shapes
<1>3. IdentityPersisted'  BY <1>1, <1>2 DEF IInv, IdentityPersisted
<1>4. \A q \in Procs : Asked(q)' /\ Between(q)'
  BY <1>1, FinishStep DEF IInv, Asked, Between
<1> QED  BY <1>1, <1>2, <1>3, <1>4, FinishStep DEF IInv, Shapes, Alone, Files, IsConfig

LEMMA InitializeKeeps ==
  ASSUME IInv, NEW p \in Procs, Initialize(p)
  PROVE  IInv'
<1>1. /\ state' = state /\ held' = held /\ config' \in Created
      /\ \A q \in Procs : proc[q].pc # "state"
  BY DEF Initialize, Locked
<1>2. IsConfig(config)' /\ (Valid(config) /\ StateValid(config, state.active))'
  <2>1. CASE config.version = 0
    BY <1>1, <2>1, EmptyFacts DEF Created, IInv, Files
  <2>2. CASE config.version # 0
    <3>1. /\ config' \in Decoded(config)
          /\ (Valid(config) /\ StateValid(config, state.active))'
      BY <1>1, <2>2 DEF Created
    <3>2. IsConfig(config)'
      BY <3>1 DEF Decoded, Upgraded, IInv, Shapes, IsConfig
    <3> QED  BY <3>1, <3>2
  <2> QED  BY <2>1, <2>2
<1>3. config.version = 2 => config' = config
  BY <1>1 DEF Created, Decoded
<1>4. config'.version = 2 /\ Files'  BY <1>2 DEF Valid, Files
<1>5. IdentityPersisted'  BY <1>1, <1>3, <1>4 DEF IInv, IdentityPersisted
<1>6. CASE Finish(p)
  <2>1. \A q \in Procs : proc'[q].pc # "state"  BY <1>1, <1>6, FinishStep DEF IInv
  <2>2. \A q \in Procs : Asked(q)'  BY <1>6, FinishStep DEF IInv, Asked
  <2> QED  BY <1>1, <1>2, <1>4, <1>5, <1>6, <2>1, <2>2, FinishStep
       DEF IInv, Shapes, Alone, Between
<1>7. CASE proc' = [proc EXCEPT ![p].pc = "state", ![p].active = state.active]
  <2>1. \A q \in Procs \ {p} : proc'[q].pc # "state"  BY <1>1, <1>7, StateStep DEF IInv
  <2>2. \A q \in Procs : Asked(q)'  BY <1>7, StateStep DEF IInv, Asked
  <2>3. Between(p)'  BY <1>1, <1>2, <1>4, <1>7, StateStep DEF IInv, Between
  <2> QED  BY <1>1, <1>2, <1>4, <1>5, <1>7, <2>1, <2>2, <2>3, StateStep
       DEF IInv, Shapes, Alone, Between
<1> QED  BY <1>6, <1>7 DEF Initialize

-----------------------------------------------------------------------------
(* Requests.                                                               *)

LEMMA AskKeeps ==
  ASSUME IInv, NEW p \in Procs, NEW c, NEW r, Ask(p, c, r),
         r.kind = "use" => ShownIs(r)
  PROVE  IInv'
<1>1. /\ Reads(c) /\ config' = c /\ state' = state
      /\ held' = [held EXCEPT ![p] = c.inst]
      /\ proc' = [proc EXCEPT ![p].pc = "asked", ![p].req = r]
  BY DEF Ask
<1>2. /\ DOMAIN proc' = Procs
      /\ \A q \in Procs : DOMAIN proc'[q] = {"pc", "req", "active"}
      /\ proc'[p].pc = "asked" /\ proc'[p].req = r
      /\ \A q \in Procs \ {p} : proc'[q] = proc[q]
  BY <1>1 DEF IInv, Shapes
<1>3. /\ DOMAIN held' = Procs /\ held'[p] = c.inst
      /\ \A q \in Procs \ {p} : held'[q] = held[q]
  BY <1>1 DEF IInv, Shapes
<1>4. IsConfig(config)' /\ Files'
  <2>1. IsConfig(c) /\ Valid(c) /\ c.version = 2 /\ StateValid(c, state.active)
    BY <1>1, ReadsFacts
  <2>2. config' = c /\ state' = state  BY <1>1
  <2> QED  BY <2>1, <2>2 DEF Files, IsConfig
<1>5. IdentityPersisted'
  BY <1>1, <1>3, ReadsFacts DEF IInv, IdentityPersisted
<1>6. \A q \in Procs : proc'[q].pc # "state"  BY <1>1, <1>2, ReadsFacts
<1>7. \A q \in Procs : Asked(q)'  BY <1>2 DEF IInv, Asked
<1> QED  BY <1>2, <1>3, <1>4, <1>5, <1>6, <1>7 DEF IInv, Shapes, Alone, Between

\* What an activation is asked for with is what was shown.
LEMMA UseShown ==
  ASSUME NEW c, NEW active, NEW target, NEW yes \in BOOLEAN
  PROVE  ShownIs([kind |-> "use", target |-> target,
                  consent |-> IF yes THEN AnyChange ELSE RequiredChange(c, active, target),
                  shown |-> <<SelectionOf(c, Global(c, active)), SelectionOf(c, target)>>])
<1> DEFINE k == IF yes THEN AnyChange ELSE RequiredChange(c, active, target)
           s == SelectionOf(c, Global(c, active))
           t == SelectionOf(c, target)
<1>1. \/ k = AnyChange \/ k = NoChange
      \/ k = [any |-> FALSE, change |-> <<Global(c, active), target, s, t>>]
  BY DEF RequiredChange, Change
<1> HIDE DEF k, s, t
<1>2. ShownIs([kind |-> "use", target |-> target, consent |-> k, shown |-> <<s, t>>])
  BY <1>1 DEF ShownIs
<1> QED  BY <1>2 DEF k, s, t

LEMMA AskingKeeps ==
  ASSUME IInv, NEW p \in Procs, Asking(p)
  PROVE  IInv'
<1>1. CASE AskUse(p)
  <2>1. PICK c \in Decoded(config), yes \in BOOLEAN, target \in Names :
          Ask(p, c, [kind |-> "use", target |-> target,
                     consent |-> IF yes THEN AnyChange
                                 ELSE RequiredChange(c, state.active, target),
                     shown |-> <<SelectionOf(c, Global(c, state.active)),
                                 SelectionOf(c, target)>>])
    BY <1>1 DEF AskUse, ContextsOf
  <2> QED  BY <2>1, UseShown, AskKeeps
<1>2. CASE AskContext(p)
  <2>1. \A n, e, x, s :
          /\ [kind |-> "edit_context", name |-> n, expected |-> e, context |-> x,
              shown |-> s].kind # "use"
          /\ [kind |-> "rename_context", name |-> n, expected |-> e, new |-> x].kind # "use"
          /\ [kind |-> "remove_context", name |-> n, expected |-> e].kind # "use"
    OBVIOUS
  <2>2. \E c, r : Ask(p, c, r) /\ r.kind # "use"
    BY <1>2, <2>1, Zenon DEF AskContext
  <2> QED  BY <2>2, AskKeeps
<1>3. CASE AskBinding(p)
  <2>1. \A d, e, x, n :
          /\ [kind |-> "edit_binding", path |-> d, expected |-> e, new |-> x,
              name |-> n].kind # "use"
          /\ [kind |-> "remove_binding", path |-> d, expected |-> e].kind # "use"
    OBVIOUS
  <2>2. \E c, r : Ask(p, c, r) /\ r.kind # "use"
    BY <1>3, <2>1, Zenon DEF AskBinding
  <2> QED  BY <2>2, AskKeeps
<1>4. CASE AskProfile(p)
  <2>1. \A i, e, x :
          /\ [kind |-> "edit_profile", id |-> i, expected |-> e, meta |-> x].kind # "use"
          /\ [kind |-> "rename_profile", id |-> i, expected |-> e, new |-> x].kind # "use"
          /\ [kind |-> "remove_profile", id |-> i, expected |-> e].kind # "use"
    OBVIOUS
  <2>2. \E c, r : Ask(p, c, r) /\ r.kind # "use"
    BY <1>4, <2>1, Zenon DEF AskProfile
  <2> QED  BY <2>2, AskKeeps
<1> QED  BY <1>1, <1>2, <1>3, <1>4 DEF Asking

-----------------------------------------------------------------------------
(* Activation.                                                             *)

\* What was confirmed is what the activation does.
LEMMA ConfirmedShown ==
  ASSUME NEW r, ShownIs(r), NEW c, NEW old, NEW target,
         Confirmed(r.consent, RequiredChange(c, old, target))
  PROVE  Confirms(r, c, old, target)
<1> DEFINE s == SelectionOf(c, Global(c, old))
           t == SelectionOf(c, target)
           required == RequiredChange(c, old, target)
           made == [any |-> FALSE, change |-> <<Global(c, old), target, s, t>>]
<1>1. \/ /\ required = NoChange
         /\ ~c.confirm \/ Global(c, old) = NoName \/ Global(c, old) = target \/ s = t
      \/ required = made
  BY DEF RequiredChange, Change
<1>2. Global(c, old) = target => s = t  OBVIOUS
<1>3. made # NoChange
  <2>1. <<Global(c, old), target, s, t>> # <<>>  OBVIOUS
  <2>2. made.change = <<Global(c, old), target, s, t>> /\ NoChange.change = <<>>
    BY DEF NoChange
  <2> QED  BY <2>1, <2>2
<1>4. CASE required = NoChange
  <2>1. required # made  BY <1>3, <1>4
  <2> QED  BY <1>1, <1>2, <2>1 DEF Confirms
<1>5. CASE required = made
  <2>1. CASE r.consent = AnyChange  BY <2>1 DEF Confirms
  <2>2. CASE r.consent = NoChange
    <3>1. ~r.consent.any
      <4>1. NoChange.any = FALSE  BY DEF NoChange
      <4> QED  BY <2>2, <4>1, Zenon
    <3>2. r.consent = made  BY <1>3, <1>5, <3>1 DEF Confirmed
    <3> QED  BY <1>3, <2>2, <3>2
  <2>3. ASSUME NEW a, NEW b, NEW u, NEW v,
               r.consent = [any |-> FALSE, change |-> <<a, b, u, v>>], r.shown = <<u, v>>
        PROVE  r.shown = <<s, t>>
    <3>1. ~r.consent.any
      <4>1. r.consent.any = FALSE  BY <2>3
      <4> QED  BY <4>1, Zenon
    <3>2. r.consent = made  BY <1>3, <1>5, <3>1 DEF Confirmed
    <3>3. r.consent.change = <<a, b, u, v>>  BY <2>3
    <3>4. made.change = <<Global(c, old), target, s, t>>  OBVIOUS
    <3> HIDE DEF made, s, t
    <3>5. <<a, b, u, v>> = <<Global(c, old), target, s, t>>  BY <3>2, <3>3, <3>4
    <3>6. u = s /\ v = t  BY <3>5
    <3> QED  BY <2>3, <3>6
  <2> QED  BY <2>1, <2>2, <2>3 DEF ShownIs, Confirms
<1> QED  BY <1>1, <1>4, <1>5

LEMMA ActivateFacts ==
  ASSUME IInv, NEW p \in Procs, Activate(p)
  PROVE  \E c : /\ Reads(c) /\ UpdateMetadata(p, c, c, proc[p].req.target)
                /\ Activates(proc[p].req, c, state.active, proc[p].req.target)
<1>1. PICK c : /\ Reads(c) /\ UpdateMetadata(p, c, c, proc[p].req.target)
               /\ Confirmed(proc[p].req.consent,
                            RequiredChange(c, state.active, proc[p].req.target))
  BY DEF Activate
<1>2. ShownIs(proc[p].req) /\ proc[p].req.kind = "use"
  BY DEF Activate, Submitted, IInv, Asked
<1>3. Confirms(proc[p].req, c, state.active, proc[p].req.target)
  BY <1>1, <1>2, ConfirmedShown
<1> QED  BY <1>1, <1>2, <1>3 DEF Activates

LEMMA ActivateKeeps ==
  ASSUME IInv, NEW p \in Procs, Activate(p)
  PROVE  IInv'
<1>1. PICK c : /\ Reads(c) /\ UpdateMetadata(p, c, c, proc[p].req.target)
               /\ Activates(proc[p].req, c, state.active, proc[p].req.target)
  BY ActivateFacts
<1>2. IsConfig(c) /\ StateValid(c, state.active)  BY <1>1, ReadsFacts
<1> QED  BY <1>1, <1>2, MetadataKeeps

-----------------------------------------------------------------------------
(* Contexts, bindings and profiles: each changes other fields than those   *)
(* an identity is made of.                                                 *)

LEMMA AddContextKeeps ==
  ASSUME IInv, NEW p \in Procs, AddContext(p)
  PROVE  IInv'
<1>1. PICK c \in Decoded(config), n \in Names, context \in Contexts :
        /\ Reads(c)
        /\ UpdateConfig(p, [c EXCEPT !.contexts[n] = context,
                                     !.default = IF @ = NoName THEN n ELSE @])
  BY DEF AddContext
<1> DEFINE new == [c EXCEPT !.contexts[n] = context,
                            !.default = IF @ = NoName THEN n ELSE @]
<1>2. IsConfig(c)  BY <1>1, ReadsFacts
<1>3. IsConfig(new) /\ new.inst = c.inst  BY <1>2 DEF IsConfig, Fields
<1> HIDE DEF new
<1>4. UpdateConfig(p, new)  BY <1>1 DEF new
<1> QED  BY <1>1, <1>3, <1>4, ConfigKeeps

LEMMA EditContextKeeps ==
  ASSUME IInv, NEW p \in Procs, EditContext(p)
  PROVE  IInv'
<1> DEFINE r == proc[p].req
<1>1. PICK c \in Decoded(config) :
        /\ Reads(c)
        /\ UpdateConfig(p, [c EXCEPT !.contexts[r.name] = r.context])
  BY DEF EditContext
<1> HIDE DEF r
<1> DEFINE new == [c EXCEPT !.contexts[r.name] = r.context]
<1>2. IsConfig(c)  BY <1>1, ReadsFacts
<1>3. IsConfig(new) /\ new.inst = c.inst  BY <1>2 DEF IsConfig, Fields
<1>4. UpdateConfig(p, new)  BY <1>1
<1> HIDE DEF new
<1> QED  BY <1>1, <1>3, <1>4, ConfigKeeps

\* An update of both files that leaves the active context alone.
LEMMA BothKeeps ==
  ASSUME IInv, NEW p \in Procs, NEW c, Reads(c), NEW new, IsConfig(new),
         new.inst = c.inst, UpdateMetadata(p, c, new, state.active)
  PROVE  IInv'
<1>1. StateValid(new, state.active)  BY DEF UpdateMetadata
<1> QED  BY <1>1, MetadataKeeps

LEMMA RenameContextKeeps ==
  ASSUME IInv, NEW p \in Procs, RenameContext(p)
  PROVE  IInv'
<1> DEFINE r == proc[p].req
<1>1. PICK c \in Decoded(config) :
        /\ Reads(c)
        /\ UpdateMetadata(p, c,
             [c EXCEPT !.contexts[r.name] = NoContext, !.contexts[r.new] = r.expected,
                       !.default = Renamed(@, r.name, r.new),
                       !.bindings = [d \in Paths |-> Renamed(@[d], r.name, r.new)]],
             state.active)
  BY DEF RenameContext
<1> HIDE DEF r
<1> DEFINE new ==
      [c EXCEPT !.contexts[r.name] = NoContext, !.contexts[r.new] = r.expected,
                !.default = Renamed(@, r.name, r.new),
                !.bindings = [d \in Paths |-> Renamed(@[d], r.name, r.new)]]
<1>2. IsConfig(c)  BY <1>1, ReadsFacts
<1>3. IsConfig(new) /\ new.inst = c.inst  BY <1>2 DEF IsConfig, Fields
<1>4. UpdateMetadata(p, c, new, state.active)  BY <1>1
<1> HIDE DEF new
<1> QED  BY <1>1, <1>3, <1>4, BothKeeps

LEMMA RemovedContextKeeps ==
  ASSUME IInv, NEW p \in Procs, NEW n, NEW c, Reads(c), RemovedContext(p, n, c)
  PROVE  IInv'
<1> DEFINE new ==
      [c EXCEPT !.contexts[n] = NoContext,
                !.default = IF @ = n THEN FirstOf(ContextsOf(c) \ {n}) ELSE @]
<1>1. IsConfig(c)  BY ReadsFacts
<1>2. IsConfig(new) /\ new.inst = c.inst  BY <1>1 DEF IsConfig, Fields
<1>3. UpdateMetadata(p, c, new, state.active)  BY DEF RemovedContext
<1> HIDE DEF new
<1> QED  BY <1>2, <1>3, BothKeeps

LEMMA RemoveContextKeeps ==
  ASSUME IInv, NEW p \in Procs, RemoveContext(p)
  PROVE  IInv'
BY RemovedContextKeeps DEF RemoveContext

\* One binding is set, or two.
LEMMA BindingsKeep ==
  ASSUME IInv, NEW p \in Procs, NEW c, Reads(c), NEW d, NEW n, NEW e, NEW m,
         \/ UpdateConfig(p, [c EXCEPT !.bindings[d] = n])
         \/ UpdateConfig(p, [c EXCEPT !.bindings[d] = n, !.bindings[e] = m])
  PROVE  IInv'
<1>1. IsConfig(c)  BY ReadsFacts
<1> DEFINE one == [c EXCEPT !.bindings[d] = n]
           two == [c EXCEPT !.bindings[d] = n, !.bindings[e] = m]
<1>2. IsConfig(one) /\ one.inst = c.inst  BY <1>1 DEF IsConfig, Fields
<1>3. IsConfig(two) /\ two.inst = c.inst  BY <1>1 DEF IsConfig, Fields
<1>4. UpdateConfig(p, one) \/ UpdateConfig(p, two)  OBVIOUS
<1> HIDE DEF one, two
<1> QED  BY <1>2, <1>3, <1>4, ConfigKeeps

LEMMA BindingKeeps ==
  ASSUME IInv, NEW p \in Procs, Binding(p)
  PROVE  IInv'
<1>1. CASE Bind(p)  BY <1>1, BindingsKeep DEF Bind
<1>2. CASE Unbind(p)  BY <1>2, BindingsKeep DEF Unbind
<1>3. CASE EditBinding(p)  BY <1>3, BindingsKeep DEF EditBinding
<1>4. CASE RemoveBinding(p)  BY <1>4, BindingsKeep DEF RemoveBinding
<1> QED  BY <1>1, <1>2, <1>3, <1>4 DEF Binding

LEMMA AddProfileKeeps ==
  ASSUME IInv, NEW p \in Procs, AddProfile(p)
  PROVE  IInv'
<1>1. PICK c \in Decoded(config), id \in Ids, dir \in Dirs, meta \in Metas :
        /\ Reads(c)
        /\ \/ UpdateConfig(p, [c EXCEPT !.profiles[id] =
                                  NewProfile(Uid(c.inst, id, dir), dir, meta)])
           \/ UNCHANGED <<config, state, proc, held>>
  BY DEF AddProfile
<1> DEFINE new == [c EXCEPT !.profiles[id] = NewProfile(Uid(c.inst, id, dir), dir, meta)]
<1>2. IsConfig(c)  BY <1>1, ReadsFacts
<1>3. IsConfig(new) /\ new.inst = c.inst  BY <1>2 DEF IsConfig, Fields
<1>4. CASE UpdateConfig(p, new)
  <2> HIDE DEF new
  <2> QED  BY <1>1, <1>3, <1>4, ConfigKeeps
<1>5. CASE UNCHANGED <<config, state, proc, held>>
  BY <1>5 DEF IInv, Shapes, Files, Alone, IdentityPersisted, Asked, Between, IsConfig
<1> QED  BY <1>1, <1>4, <1>5

LEMMA EditProfileKeeps ==
  ASSUME IInv, NEW p \in Procs, EditProfile(p)
  PROVE  IInv'
<1> DEFINE r == proc[p].req
<1>1. PICK c \in Decoded(config) :
        /\ Reads(c)
        /\ UpdateConfig(p, [c EXCEPT !.profiles[r.id] = Edited(@, r.meta)])
  BY DEF EditProfile
<1> HIDE DEF r
<1> DEFINE new == [c EXCEPT !.profiles[r.id] = Edited(@, r.meta)]
<1>2. IsConfig(c)  BY <1>1, ReadsFacts
<1>3. IsConfig(new) /\ new.inst = c.inst  BY <1>2 DEF IsConfig, Fields
<1>4. UpdateConfig(p, new)  BY <1>1
<1> HIDE DEF new
<1> QED  BY <1>1, <1>3, <1>4, ConfigKeeps

LEMMA RenameProfileKeeps ==
  ASSUME IInv, NEW p \in Procs, RenameProfile(p)
  PROVE  IInv'
<1> DEFINE r == proc[p].req
<1>1. PICK c \in Decoded(config) :
        /\ Reads(c)
        /\ UpdateConfig(p,
             [c EXCEPT !.profiles[r.id] = NoProfile, !.profiles[r.new] = r.expected,
                       !.contexts = [n \in Names |-> [v \in Providers |->
                                        Renamed(@[n][v], r.id, r.new)]]])
  BY DEF RenameProfile
<1> HIDE DEF r
<1> DEFINE new ==
      [c EXCEPT !.profiles[r.id] = NoProfile, !.profiles[r.new] = r.expected,
                !.contexts = [n \in Names |-> [v \in Providers |->
                                 Renamed(@[n][v], r.id, r.new)]]]
<1>2. IsConfig(c)  BY <1>1, ReadsFacts
<1>3. IsConfig(new) /\ new.inst = c.inst  BY <1>2 DEF IsConfig, Fields
<1>4. UpdateConfig(p, new)  BY <1>1
<1> HIDE DEF new
<1> QED  BY <1>1, <1>3, <1>4, ConfigKeeps

LEMMA RemoveProfileKeeps ==
  ASSUME IInv, NEW p \in Procs, RemoveProfile(p)
  PROVE  IInv'
<1> DEFINE r == proc[p].req
<1>1. PICK c \in Decoded(config) :
        /\ Reads(c)
        /\ UpdateConfig(p, [c EXCEPT !.profiles[r.id] = NoProfile,
                                     !.retired = @ \union {r.expected.uid}])
  BY DEF RemoveProfile
<1> HIDE DEF r
<1> DEFINE new == [c EXCEPT !.profiles[r.id] = NoProfile,
                            !.retired = @ \union {r.expected.uid}]
<1>2. IsConfig(c)  BY <1>1, ReadsFacts
<1>3. IsConfig(new) /\ new.inst = c.inst  BY <1>2 DEF IsConfig, Fields
<1>4. UpdateConfig(p, new)  BY <1>1
<1> HIDE DEF new
<1> QED  BY <1>1, <1>3, <1>4, ConfigKeeps

LEMMA NextInv == IInv /\ [Next]_vars => IInv'
<1> SUFFICES ASSUME IInv, [Next]_vars PROVE IInv'  OBVIOUS
<1>1. ASSUME NEW p \in Procs, WriteState(p) \/ Asking(p) \/ Cancel(p)
      PROVE  IInv'
  BY <1>1, WriteStateKeeps, AskingKeeps, CancelKeeps
<1>2. ASSUME NEW p \in Procs, Selecting(p)
      PROVE  IInv'
  BY <1>2, ActivateKeeps, AddContextKeeps, EditContextKeeps, RenameContextKeeps,
     RemoveContextKeeps DEF Selecting
<1>3. ASSUME NEW p \in Procs, Profiling(p)
      PROVE  IInv'
  BY <1>3, AddProfileKeeps, EditProfileKeeps, RenameProfileKeeps, RemoveProfileKeeps
     DEF Profiling
<1>4. CASE UNCHANGED vars
  BY <1>4 DEF vars, IInv, Shapes, Files, Alone, IdentityPersisted, Asked, Between, IsConfig
<1> QED  BY <1>1, <1>2, <1>3, <1>4, InitializeKeeps, BindingKeeps DEF Next

(***************************************************************************)
(* What each step leaves for the next: the two files fit at every moment,  *)
(* at most one process is between them, and what it has still to write     *)
(* fits what it has written and was shown.  (update_metadata, initialize   *)
(* and load_metadata under the metadata lock.)                             *)
(***************************************************************************)
THEOREM Invariance == Spec => []IInv
<1>1. IInv /\ [Next]_vars => IInv'  BY NextInv
<1> QED  BY InitInv, <1>1, PTL DEF Spec

(***************************************************************************)
(* Whatever number of processes upgrade or initialize at once, no process  *)
(* works with an identity other than the one on disk.                      *)
(* (persist_config_upgrade in load_metadata; initialize.)                  *)
(***************************************************************************)
THEOREM IdentitiesPersisted == Spec => []IdentityPersisted
<1>1. IInv => IdentityPersisted  BY DEF IInv
<1> QED  BY Invariance, <1>1, PTL

-----------------------------------------------------------------------------
(* Selections.                                                             *)

\* Only an activation and the write that completes it change the state.
LEMMA UpdateKeepsActive ==
  ASSUME NEW p \in Procs, NEW c, NEW new,
         UpdateConfig(p, new) \/ UpdateMetadata(p, c, new, state.active)
  PROVE  state' = state
BY DEF UpdateConfig, UpdateMetadata

LEMMA OthersKeepActive ==
  ASSUME NEW p \in Procs,
         \/ Asking(p) \/ Cancel(p) \/ Initialize(p) \/ Binding(p) \/ Profiling(p)
         \/ AddContext(p) \/ EditContext(p) \/ RenameContext(p) \/ RemoveContext(p)
  PROVE  state' = state
<1>1. CASE Asking(p)
  BY <1>1 DEF Asking, AskUse, AskContext, AskBinding, AskProfile, Ask
<1>2. CASE Cancel(p) \/ Initialize(p)  BY <1>2 DEF Cancel, Initialize
<1>3. CASE Binding(p)
  BY <1>3, UpdateKeepsActive DEF Binding, Bind, Unbind, EditBinding, RemoveBinding
<1>4. CASE AddProfile(p)  BY <1>4, UpdateKeepsActive DEF AddProfile
<1>5. CASE EditProfile(p) \/ RenameProfile(p) \/ RemoveProfile(p)
  BY <1>5, UpdateKeepsActive DEF EditProfile, RenameProfile, RemoveProfile
<1>6. CASE AddContext(p) \/ EditContext(p)
  BY <1>6, UpdateKeepsActive DEF AddContext, EditContext
<1>7. CASE RenameContext(p) \/ RemoveContext(p)
  BY <1>7, UpdateKeepsActive DEF RenameContext, RemoveContext, RemovedContext
<1> QED  BY <1>1, <1>2, <1>3, <1>4, <1>5, <1>6, <1>7 DEF Profiling

\* What SelectionConfirmed says of the process that changes the selection.
Selects(p) == /\ proc[p].pc # "idle" /\ proc'[p].pc = "idle"
              /\ proc[p].req.kind = "use"
              /\ state'.active = proc[p].req.target
              /\ ActivationConfirmed(proc[p].req)

LEMMA ConfirmsIsConfirmed ==
  ASSUME NEW p \in Procs, config' = config,
         Activates(proc[p].req, config, state.active, state'.active)
  PROVE  ActivationConfirmed(proc[p].req)
BY DEF Activates, Confirms, ActivationConfirmed, Leaves, Enters

LEMMA WriteSelects ==
  ASSUME IInv, NEW p \in Procs, WriteState(p), state'.active # state.active
  PROVE  Selects(p)
<1>1. /\ proc[p].pc = "state" /\ config' = config /\ Finish(p)
      /\ state'.active = proc[p].active
  BY DEF WriteState
<1>2. Activates(proc[p].req, config, state.active, state'.active)
  BY <1>1 DEF IInv, Between
<1>3. proc'[p].pc = "idle"  BY <1>1, FinishStep DEF IInv
<1> QED  BY <1>1, <1>2, <1>3, ConfirmsIsConfirmed DEF Selects, Activates

LEMMA ActivateSelects ==
  ASSUME IInv, NEW p \in Procs, Activate(p), state'.active # state.active
  PROVE  Selects(p)
<1>1. PICK c : /\ Reads(c) /\ UpdateMetadata(p, c, c, proc[p].req.target)
               /\ Activates(proc[p].req, c, state.active, proc[p].req.target)
  BY ActivateFacts
<1>2. ~Migrated /\ Finish(p) /\ config' = config
      /\ state'.active = proc[p].req.target
  BY <1>1 DEF UpdateMetadata
<1>3. c = config  BY <1>1, <1>2 DEF Reads, Decoded, Migrated
<1>4. proc'[p].pc = "idle"  BY <1>2, FinishStep DEF IInv
<1> QED  BY <1>1, <1>2, <1>3, <1>4, ConfirmsIsConfirmed
     DEF Selects, Activates, Activate, Submitted

(***************************************************************************)
(* However many processes ask, change contexts and profiles, and are       *)
(* killed between the files, the active context changes only to what the   *)
(* operator who changes it was shown.  (activate_inner.)                   *)
(***************************************************************************)
THEOREM SelectionsConfirmed == Spec => SelectionConfirmed
<1>1. IInv /\ [Next]_vars => [state'.active # state.active => \E p \in Procs : Selects(p)]_vars
  <2> SUFFICES ASSUME IInv, Next, state'.active # state.active
               PROVE  \E p \in Procs : Selects(p)
    OBVIOUS
  <2>1. PICK p \in Procs :
          \/ WriteState(p) \/ Activate(p)
          \/ Asking(p) \/ Cancel(p) \/ Initialize(p) \/ Binding(p) \/ Profiling(p)
          \/ AddContext(p) \/ EditContext(p) \/ RenameContext(p) \/ RemoveContext(p)
    BY DEF Next, Selecting
  <2>2. WriteState(p) \/ Activate(p)  BY <2>1, OthersKeepActive
  <2> QED  BY <2>2, WriteSelects, ActivateSelects
<1>2. IInv /\ [Next]_vars =>
        [state'.active # state.active =>
           \E p \in Procs : /\ proc[p].pc # "idle" /\ proc'[p].pc = "idle"
                            /\ proc[p].req.kind = "use"
                            /\ state'.active = proc[p].req.target
                            /\ ActivationConfirmed(proc[p].req)]_vars
  BY <1>1 DEF Selects
<1> QED  BY Invariance, <1>2, PTL DEF Spec, SelectionConfirmed

-----------------------------------------------------------------------------
(* What can be read back.                                                  *)

LEMMA LeastNatural ==
  ASSUME NEW T \in SUBSET Nat, T # {}
  PROVE  \E x \in T : \A y \in T : x <= y
<1>1. PICK x \in T : \A y \in T : ~ (<<y, x>> \in OpToRel(<, Nat))
  BY WFMin, NatLessThanWellFounded
<1>2. \A y \in T : ~ (y < x)  BY <1>1 DEF OpToRel
<1> QED  BY <1>2

\* There is a closest binding when any covers the directory.
LEMMA ClosestCovers ==
  ASSUME NEW c, NEW d \in Paths, Covering(c, d) # {}
  PROVE  Closest(c, d) \in Covering(c, d)
<1> DEFINE C == Covering(c, d)
           T == {Len(d) - Len(b) : b \in C}
<1>1. \A b \in C : Len(b) \in Nat /\ Len(d) \in Nat /\ Len(b) <= Len(d)
  BY PathsAssumption DEF Covering
<1> HIDE DEF C
<1>2. T \in SUBSET Nat /\ T # {}  BY <1>1 DEF C
<1>3. PICK x \in T : \A y \in T : x <= y
  <2> HIDE DEF T
  <2> QED  BY <1>2, LeastNatural
<1>4. PICK b \in C : x = Len(d) - Len(b)  OBVIOUS
<1>5. \A other \in C : Len(other) <= Len(b)
  <2> TAKE other \in C
  <2>1. Len(d) - Len(b) <= Len(d) - Len(other)  BY <1>3, <1>4
  <2> QED  BY <1>1, <2>1
<1> QED  BY <1>5 DEF C, Closest

LEMMA ResolvesToContext ==
  ASSUME NEW c, Valid(c), NEW active, StateValid(c, active), NEW d \in Paths
  PROVE  ResolvedAt(c, active, d) \in ContextsOf(c) \union {NoName}
<1>1. BindingsValid(c)  BY DEF Valid
<1>2. CASE Covering(c, d) # {}
  <2>1. Closest(c, d) \in Paths /\ c.bindings[Closest(c, d)] # NoName
    BY <1>2, ClosestCovers DEF Covering
  <2> QED  BY <1>1, <1>2, <2>1 DEF BindingsValid, ResolvedAt
<1>3. CASE Covering(c, d) = {}
  BY <1>1, <1>3 DEF BindingsValid, StateValid, ResolvedAt, Global
<1> QED  BY <1>2, <1>3

(***************************************************************************)
(* Whatever is written, in whatever order and however often a process is   *)
(* killed between the files, can be read back, and every directory         *)
(* resolves to nothing or to a context that exists.  (update_metadata;     *)
(* resolve_context.)                                                       *)
(***************************************************************************)
THEOREM AlwaysLoadable == Spec => []Loadable
<1>1. IInv => Loadable
  <2> SUFFICES ASSUME IInv, NEW c \in Decoded(config), c.version = 2
               PROVE  /\ Valid(c) /\ StateValid(c, state.active)
                      /\ \A d \in Paths :
                          ResolvedAt(c, state.active, d) \in ContextsOf(c) \union {NoName}
    BY DEF Loadable
  <2>1. Valid(c) /\ StateValid(c, state.active)
    <3>1. CASE config.version = 1
      BY <3>1, StoresAssumption DEF IInv, Files, StateValid
    <3>2. CASE config.version # 1
      BY <3>2 DEF Decoded, IInv, Files
    <3> QED  BY <3>1, <3>2
  <2> QED  BY <2>1, ResolvesToContext
<1> QED  BY Invariance, <1>1, PTL
=============================================================================
