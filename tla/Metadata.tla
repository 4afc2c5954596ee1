------------------------------ MODULE Metadata ------------------------------
(***************************************************************************)
(* The metadata store and the commands and dashboard forms that change it  *)
(* (src/src/config.rs, src/src/config/upgrade.rs,                          *)
(* src/src/model/validation.rs, src/src/management.rs,                     *)
(* src/src/activation.rs, src/src/resolver.rs and their callers in         *)
(* src/src/commands.rs and src/src/tui.rs).  Two files hold it: the        *)
(* configuration and the state, which is the active context.  Every        *)
(* coordinated operation holds the metadata lock from its first read to    *)
(* its last write, so an operation that writes one file is one step here;  *)
(* one that writes both can be killed or fail in between.  What an         *)
(* operator decides on is a snapshot from an earlier operation.            *)
(*                                                                         *)
(* The profile locks and fence markers that the profile commands also take *)
(* are in ProfileFence; here they may only refuse.                         *)
(***************************************************************************)
EXTENDS Naturals, Sequences, FiniteSets

CONSTANTS Procs,          \* ctxlane processes
          Providers,
          ProfileNames,   \* distinct after case folding
          Names,          \* context names, numbers in their order
          Paths,          \* canonical directories, sequences of components
          Metas,          \* the metadata of a profile that can be edited
          Installations,  \* identifiers that may be generated
          Dirs,           \* bound: managed state directories ever created
          Stores,         \* configuration files there may be at first
          MaxCommands     \* bound: changes committed or tried
NoName == 0
NoInstallation == "none"
ASSUME NamesAssumption == Names \subseteq Nat \ {NoName} /\ IsFiniteSet(Names)
ASSUME PathsAssumption == Paths \subseteq Seq(Nat) /\ IsFiniteSet(Paths)
ASSUME InstallationsAssumption == NoInstallation \notin Installations

NoId == <<>>
Ids == Providers \X ProfileNames
NoProfile == [dir |-> 0, uid |-> <<>>, meta |-> "none"]
NoContext == [v \in Providers |-> NoId]
Contexts == [Providers -> Ids \union {NoId}]

VARIABLES config,   \* the configuration file; version 0 when there is none
          state,    \* the state file: whether there is one, the active context
          proc,     \* per process: the request it works on
          held,     \* per process: the installation it was last given
          dirs,     \* managed state directories created so far
          commands
vars == <<config, state, proc, held, dirs, commands>>

NoRequest == [kind |-> "none"]
Idle == [pc |-> "idle", req |-> NoRequest, active |-> NoName]

\* Config::new
NewConfig(inst) ==
    [version |-> 2, inst |-> inst, default |-> NoName, confirm |-> TRUE,
     retired |-> {}, profiles |-> [id \in Ids |-> NoProfile],
     contexts |-> [n \in Names |-> NoContext], bindings |-> [d \in Paths |-> NoName]]
NoConfig == [NewConfig(NoInstallation) EXCEPT !.version = 0]

\* ProfileUid::for_state_dir
Uid(inst, id, dir) == <<inst, id[1], dir>>
-----------------------------------------------------------------------------
(***************************************************************************)
(* Reading: decoding, validation, selection.                               *)
(***************************************************************************)
\* ProfileV1::upgrade
UpgradedProfile(profile, uid) == [profile EXCEPT !.uid = uid]
\* upgrade_v1: a version-1 file has no identities; every decode makes them
\* up from an installation identifier generated for it.
Upgraded(f, inst) ==
    [f EXCEPT !.version = 2, !.inst = inst,
              !.profiles = [id \in Ids |->
                  IF f.profiles[id] = NoProfile THEN NoProfile
                  ELSE UpgradedProfile(f.profiles[id], Uid(inst, id, f.profiles[id].dir))]]
\* read_config
Decoded(f) == IF f.version = 1 THEN {Upgraded(f, inst) : inst \in Installations}
              ELSE {f}

ProfilesOf(c) == {id \in Ids : c.profiles[id] # NoProfile}
ContextsOf(c) == {n \in Names : c.contexts[n] # NoContext}

\* Config::validate: a profile's identity is that of its directory, which no
\* other profile has and which was never retired.
ProfilesValid(c) ==
    /\ \A id \in ProfilesOf(c) :
        /\ c.profiles[id].uid = Uid(c.inst, id, c.profiles[id].dir)
        /\ c.profiles[id].uid \notin c.retired
    /\ \A id, other \in ProfilesOf(c) :
        c.profiles[id].dir = c.profiles[other].dir => id = other
SlotsValid(c) ==
    \A n \in Names, v \in Providers : LET id == c.contexts[n][v] IN
        id # NoId => id \in ProfilesOf(c) /\ id[1] = v
BindingsValid(c) ==
    /\ c.default # NoName => c.default \in ContextsOf(c)
    /\ \A d \in Paths : c.bindings[d] # NoName => c.bindings[d] \in ContextsOf(c)
Valid(c) == c.version = 2 /\ ProfilesValid(c) /\ SlotsValid(c) /\ BindingsValid(c)

\* MutableState::validate
StateValid(c, active) == active # NoName => active \in ContextsOf(c)

\* resolve_context: the closest binding above the directory, else the active
\* context, else the default.
Covering(c, d) == {b \in Paths : /\ c.bindings[b] # NoName
                                 /\ Len(b) <= Len(d) /\ SubSeq(d, 1, Len(b)) = b}
Closest(c, d) == CHOOSE b \in Covering(c, d) :
                     \A other \in Covering(c, d) : Len(other) <= Len(b)
Global(c, active) == IF active # NoName THEN active ELSE c.default
ResolvedAt(c, active, d) == IF Covering(c, d) # {} THEN c.bindings[Closest(c, d)]
                            ELSE Global(c, active)

\* profile_fingerprints: the whole profile, not only its name.
Fingerprints(c, context) ==
    [v \in Providers |-> LET id == context[v] IN
        IF id \in ProfilesOf(c) THEN <<id, c.profiles[id]>> ELSE <<>>]
SelectionOf(c, n) == Fingerprints(c, IF n \in Names THEN c.contexts[n] ELSE NoContext)

\* SelectionChange, and None, Change(_) and AnyChange of SelectionConfirmation.
NoChange == [any |-> FALSE, change |-> <<>>]
Change(c, previous, target) ==
    [any |-> FALSE, change |-> <<previous, target, SelectionOf(c, previous), SelectionOf(c, target)>>]
AnyChange == [any |-> TRUE, change |-> <<>>]

\* selection_change under the setting: what has to be confirmed.
RequiredChange(c, active, target) ==
    LET previous == Global(c, active) IN
    IF \/ ~ c.confirm \/ previous \in {NoName, target}
       \/ SelectionOf(c, previous) = SelectionOf(c, target)
    THEN NoChange ELSE Change(c, previous, target)
\* Mutant: only the names of the contexts are compared.
ConfirmedByName(consent, required) ==
    \/ consent.any \/ required = NoChange
    \/ /\ Len(consent.change) = 4 /\ Len(required.change) = 4
       /\ SubSeq(consent.change, 1, 2) = SubSeq(required.change, 1, 2)

Confirmed(consent, required) == consent.any \/ required \in {NoChange, consent}
-----------------------------------------------------------------------------
(***************************************************************************)
(* Writing.  Each file is replaced atomically.  A write that fails leaves  *)
(* it alone, and so does a refused update; a write may also take effect    *)
(* and report an error, which is no different on disk.                     *)
(***************************************************************************)
\* Only a process that has written the configuration and not yet the state
\* is between two steps of an operation, with the metadata lock.
Locked == \E p \in Procs : proc[p].pc = "state"
Migrated == config.version = 1

\* What every coordinated operation begins with; it goes on with `c`.
Reads(c) == /\ ~ Locked
            /\ config.version # 0
            /\ c \in Decoded(config)
            /\ Valid(c) /\ StateValid(c, state.active)

Finish(p) == proc' = [proc EXCEPT ![p] = Idle]

\* update_config
UpdateConfig(p, new) ==
    /\ Valid(new) /\ StateValid(new, state.active)
    /\ config' = new
    /\ Finish(p)
    /\ UNCHANGED <<state, held>>

\* update_metadata: the configuration first, if it changed or was upgraded,
\* then the state, if it changed.
UpdateMetadata(p, c, new, active) ==
    /\ Valid(new) /\ StateValid(new, active)
    /\ IF Migrated \/ new # c
       THEN /\ config' = new
            /\ UNCHANGED state
            /\ IF active = state.active THEN Finish(p)
               ELSE proc' = [proc EXCEPT ![p].pc = "state", ![p].active = active]
       ELSE /\ Finish(p)
            /\ state' = IF active = state.active THEN state
                        ELSE [exists |-> TRUE, active |-> active]
            /\ UNCHANGED config
    /\ UNCHANGED held

WriteState(p) ==
    /\ proc[p].pc = "state"
    /\ state' \in {state, [exists |-> TRUE, active |-> proc[p].active]}
    /\ Finish(p)
    /\ UNCHANGED <<config, held, dirs>>
-----------------------------------------------------------------------------
(***************************************************************************)
(* Initialization.                                                         *)
(***************************************************************************)
ASSUME StoresAssumption ==
    \A f \in Stores : DOMAIN f = DOMAIN NoConfig /\ \A c \in Decoded(f) : Valid(c)

Init == /\ config \in Stores \union {NoConfig}
        /\ state = [exists |-> FALSE, active |-> NoName]
        /\ proc = [p \in Procs |-> Idle]
        /\ held = [p \in Procs |-> NoInstallation]
        /\ dirs = {config.profiles[id].dir : id \in ProfilesOf(config)}
        /\ commands = 0

\* initialize writes a missing configuration, or persists the upgrade of one
\* that exists, and then writes the state if there is none.  Whether the
\* configuration exists is decided under the locks.
Created == IF config.version = 0 THEN {NewConfig(inst) : inst \in Installations}
           ELSE {c \in Decoded(config) : Valid(c) /\ StateValid(c, state.active)}
Initialize(p) ==
    /\ proc[p].pc = "idle" /\ ~ Locked
    /\ config' \in Created
    /\ IF state.exists THEN Finish(p)
       ELSE proc' = [proc EXCEPT ![p].pc = "state", ![p].active = state.active]
    /\ UNCHANGED <<state, held, dirs>>
-----------------------------------------------------------------------------
(***************************************************************************)
(* Requests.  load_metadata persists an upgrade before it returns the      *)
(* configuration; what the operator then asks for is built from that       *)
(* snapshot, and other processes may work before it is submitted.  A       *)
(* request keeps what the operator has been shown.                         *)
(***************************************************************************)
\* Mutant: the upgraded configuration is returned and not written.
AskUnpersisted(p, c, r) ==
    /\ proc[p].pc = "idle"
    /\ Reads(c)
    /\ held' = [held EXCEPT ![p] = c.inst]
    /\ proc' = [proc EXCEPT ![p].pc = "asked", ![p].req = r]
    /\ UNCHANGED <<config, state, dirs>>

Ask(p, c, r) ==
    /\ proc[p].pc = "idle"
    /\ Reads(c)
    /\ config' = c
    /\ held' = [held EXCEPT ![p] = c.inst]
    /\ proc' = [proc EXCEPT ![p].pc = "asked", ![p].req = r]
    /\ UNCHANGED <<state, dirs>>

\* `use` and Enter in the dashboard: the change to confirm, unless --yes.
AskUse(p) ==
    \E c \in Decoded(config), yes \in BOOLEAN :
        \E target \in ContextsOf(c) :
            Ask(p, c, [kind |-> "use", target |-> target,
                       consent |-> IF yes THEN AnyChange
                                   ELSE RequiredChange(c, state.active, target),
                       shown |-> <<SelectionOf(c, Global(c, state.active)),
                                   SelectionOf(c, target)>>])

\* The dashboard's forms for a context; editing it shows the new selection
\* and asks.
AskContext(p) ==
    \E c \in Decoded(config) : \E n \in ContextsOf(c) :
        \/ \E context \in Contexts \ {NoContext, c.contexts[n]} :
            Ask(p, c, [kind |-> "edit_context", name |-> n, expected |-> c.contexts[n],
                       context |-> context, shown |-> Fingerprints(c, context)])
        \/ \E new \in Names \ {n} :
            Ask(p, c, [kind |-> "rename_context", name |-> n, expected |-> c.contexts[n],
                       new |-> new])
        \/ Ask(p, c, [kind |-> "remove_context", name |-> n, expected |-> c.contexts[n]])

\* Its forms for a binding.
AskBinding(p) ==
    \E c \in Decoded(config) : \E d \in Paths :
        /\ c.bindings[d] # NoName
        /\ \/ \E path \in Paths, n \in ContextsOf(c) :
               Ask(p, c, [kind |-> "edit_binding", path |-> d, expected |-> c.bindings[d],
                          new |-> path, name |-> n])
           \/ Ask(p, c, [kind |-> "remove_binding", path |-> d, expected |-> c.bindings[d]])

\* Its forms, and the profile commands, for a profile.
AskProfile(p) ==
    \E c \in Decoded(config) : \E id \in ProfilesOf(c) :
        \/ \E meta \in Metas :
            Ask(p, c, [kind |-> "edit_profile", id |-> id, expected |-> c.profiles[id],
                       meta |-> meta])
        \/ \E new \in ProfileNames :
            Ask(p, c, [kind |-> "rename_profile", id |-> id, expected |-> c.profiles[id],
                       new |-> <<id[1], new>>])
        \/ Ask(p, c, [kind |-> "remove_profile", id |-> id, expected |-> c.profiles[id]])

\* The operator declines, the request is refused, or the process is killed.
Cancel(p) ==
    /\ proc[p].pc \in {"asked", "state"}
    /\ Finish(p)
    /\ held' \in {held, [held EXCEPT ![p] = NoInstallation]}
    /\ UNCHANGED <<config, state, dirs>>

Submitted(p, kind) == proc[p].pc = "asked" /\ proc[p].req.kind = kind
-----------------------------------------------------------------------------
(***************************************************************************)
(* Activation.                                                             *)
(***************************************************************************)
\* activate_inner: the confirmation is compared with the change that the
\* activation makes now.
Activate(p) ==
    /\ Submitted(p, "use")
    /\ \E c \in Decoded(config) :
        /\ Reads(c)
        /\ proc[p].req.target \in ContextsOf(c)
        /\ Confirmed(proc[p].req.consent,
                     RequiredChange(c, state.active, proc[p].req.target))
        /\ UpdateMetadata(p, c, c, proc[p].req.target)
    /\ UNCHANGED dirs
-----------------------------------------------------------------------------
(***************************************************************************)
(* Contexts and bindings.                                                  *)
(***************************************************************************)
\* A context of the command line or of a form; the first becomes the default.
AddContext(p) ==
    /\ proc[p].pc = "idle"
    /\ \E c \in Decoded(config), n \in Names, context \in Contexts \ {NoContext} :
        /\ Reads(c)
        /\ n \notin ContextsOf(c)
        /\ UpdateConfig(p, [c EXCEPT !.contexts[n] = context,
                                     !.default = IF @ = NoName THEN n ELSE @])
    /\ UNCHANGED dirs

EditContext(p) ==
    /\ Submitted(p, "edit_context")
    /\ LET r == proc[p].req IN
       \E c \in Decoded(config) :
        /\ Reads(c)
        /\ c.contexts[r.name] = r.expected
        /\ UpdateConfig(p, [c EXCEPT !.contexts[r.name] = r.context])
    /\ UNCHANGED dirs

\* The default and the bindings follow a renamed context; the active one
\* cannot be renamed.
Renamed(n, old, new) == IF n = old THEN new ELSE n
\* Mutant: the active context may be renamed and follows its name.
RenameActive(p) ==
    /\ Submitted(p, "rename_context")
    /\ LET r == proc[p].req IN
       \E c \in Decoded(config) :
        /\ Reads(c)
        /\ c.contexts[r.name] = r.expected
        /\ r.new \notin ContextsOf(c)
        /\ UpdateMetadata(p, c,
             [c EXCEPT !.contexts[r.name] = NoContext, !.contexts[r.new] = r.expected,
                       !.default = Renamed(@, r.name, r.new),
                       !.bindings = [d \in Paths |-> Renamed(@[d], r.name, r.new)]],
             Renamed(state.active, r.name, r.new))
    /\ UNCHANGED dirs

RenameContext(p) ==
    /\ Submitted(p, "rename_context")
    /\ LET r == proc[p].req IN
       \E c \in Decoded(config) :
        /\ Reads(c)
        /\ c.contexts[r.name] = r.expected
        /\ state.active # r.name
        /\ r.new \notin ContextsOf(c)
        /\ UpdateMetadata(p, c,
             [c EXCEPT !.contexts[r.name] = NoContext, !.contexts[r.new] = r.expected,
                       !.default = Renamed(@, r.name, r.new),
                       !.bindings = [d \in Paths |-> Renamed(@[d], r.name, r.new)]],
             state.active)
    /\ UNCHANGED dirs

\* A context that is neither active nor bound goes, and the default moves to
\* the first that is left.
FirstOf(names) == IF names = {} THEN NoName
                  ELSE CHOOSE n \in names : \A other \in names : n <= other
RemovedContext(p, n, c) ==
    /\ n \in ContextsOf(c)
    /\ state.active # n
    /\ \A d \in Paths : c.bindings[d] # n
    /\ UpdateMetadata(p, c,
         [c EXCEPT !.contexts[n] = NoContext,
                   !.default = IF @ = n THEN FirstOf(ContextsOf(c) \ {n}) ELSE @],
         state.active)
RemoveContext(p) ==
    /\ \/ /\ Submitted(p, "remove_context")
          /\ \E c \in Decoded(config) :
              /\ Reads(c)
              /\ c.contexts[proc[p].req.name] = proc[p].req.expected
              /\ RemovedContext(p, proc[p].req.name, c)
       \/ /\ proc[p].pc = "idle"
          /\ \E c \in Decoded(config), n \in Names : Reads(c) /\ RemovedContext(p, n, c)
    /\ UNCHANGED dirs

\* `bind` replaces a binding of the directory; the form adds one only where
\* there is none.
Bind(p) ==
    /\ proc[p].pc = "idle"
    /\ \E c \in Decoded(config), d \in Paths :
        /\ Reads(c)
        /\ \E n \in ContextsOf(c) : UpdateConfig(p, [c EXCEPT !.bindings[d] = n])
    /\ UNCHANGED dirs
Unbind(p) ==
    /\ proc[p].pc = "idle"
    /\ \E c \in Decoded(config), d \in Paths :
        Reads(c) /\ UpdateConfig(p, [c EXCEPT !.bindings[d] = NoName])
    /\ UNCHANGED dirs

EditBinding(p) ==
    /\ Submitted(p, "edit_binding")
    /\ LET r == proc[p].req IN
       \E c \in Decoded(config) :
        /\ Reads(c)
        /\ r.name \in ContextsOf(c)
        /\ c.bindings[r.path] = r.expected
        /\ r.new # r.path => c.bindings[r.new] = NoName
        /\ UpdateConfig(p, [c EXCEPT !.bindings[r.path] = NoName,
                                     !.bindings[r.new] = r.name])
    /\ UNCHANGED dirs
RemoveBinding(p) ==
    /\ Submitted(p, "remove_binding")
    /\ LET r == proc[p].req IN
       \E c \in Decoded(config) :
        /\ Reads(c)
        /\ c.bindings[r.path] = r.expected
        /\ UpdateConfig(p, [c EXCEPT !.bindings[r.path] = NoName])
    /\ UNCHANGED dirs
-----------------------------------------------------------------------------
(***************************************************************************)
(* Profiles.                                                               *)
(***************************************************************************)
\* profile_from_draft
NewProfile(uid, dir, meta) == [dir |-> dir, uid |-> uid, meta |-> meta]
\* add_profile: the directory is made inside the update, and stays when the
\* configuration is not written.
AddProfile(p) ==
    /\ proc[p].pc = "idle"
    /\ \E c \in Decoded(config), id \in Ids, dir \in Dirs \ dirs, meta \in Metas :
        /\ Reads(c)
        /\ id \notin ProfilesOf(c)
        /\ Uid(c.inst, id, dir) \notin c.retired
        /\ dirs' = dirs \union {dir}
        /\ \/ UpdateConfig(p, [c EXCEPT !.profiles[id] =
                                      NewProfile(Uid(c.inst, id, dir), dir, meta)])
           \/ UNCHANGED <<config, state, proc, held>>

Expected(c, r) == c.profiles[r.id] = r.expected
\* apply_profile_edit
Edited(profile, meta) == [profile EXCEPT !.meta = meta]
EditProfile(p) ==
    /\ Submitted(p, "edit_profile")
    /\ \E c \in Decoded(config) :
        /\ Reads(c) /\ Expected(c, proc[p].req)
        /\ UpdateConfig(p, [c EXCEPT !.profiles[proc[p].req.id] = Edited(@, proc[p].req.meta)])
    /\ UNCHANGED dirs

\* Every context that selects the profile follows its new name.
RenameProfile(p) ==
    /\ Submitted(p, "rename_profile")
    /\ LET r == proc[p].req IN
       \E c \in Decoded(config) :
        /\ Reads(c) /\ Expected(c, r)
        /\ r.new # r.id => r.new \notin ProfilesOf(c)
        /\ UpdateConfig(p,
             [c EXCEPT !.profiles[r.id] = NoProfile, !.profiles[r.new] = r.expected,
                       !.contexts = [n \in Names |-> [v \in Providers |->
                                        Renamed(@[n][v], r.id, r.new)]]])
    /\ UNCHANGED dirs

\* A profile in use stays; the identity of one that goes is never used again.
Unreferenced(c, id) == \A n \in Names, v \in Providers : c.contexts[n][v] # id
RemoveProfile(p) ==
    /\ Submitted(p, "remove_profile")
    /\ LET r == proc[p].req IN
       \E c \in Decoded(config) :
        /\ Reads(c) /\ Expected(c, r) /\ Unreferenced(c, r.id)
        /\ UpdateConfig(p, [c EXCEPT !.profiles[r.id] = NoProfile,
                                     !.retired = @ \union {r.expected.uid}])
    /\ UNCHANGED dirs
-----------------------------------------------------------------------------
Asking(p) == AskUse(p) \/ AskContext(p) \/ AskBinding(p) \/ AskProfile(p)
Selecting(p) == Activate(p) \/ AddContext(p) \/ EditContext(p) \/ RenameContext(p) \/ RemoveContext(p)
Binding(p) == Bind(p) \/ Unbind(p) \/ EditBinding(p) \/ RemoveBinding(p)
Profiling(p) == AddProfile(p) \/ EditProfile(p) \/ RenameProfile(p) \/ RemoveProfile(p)

\* Asking, waiting and failing are free, a change counts.
Next == \E p \in Procs :
    \/ (WriteState(p) \/ Asking(p) \/ Cancel(p)) /\ UNCHANGED commands
    \/ /\ (Initialize(p) \/ Selecting(p) \/ Binding(p) \/ Profiling(p))
       /\ commands < MaxCommands /\ commands' = commands + 1
Spec == Init /\ [][Next]_vars
-----------------------------------------------------------------------------
TypeOK ==
    /\ config.version \in 0..2
    /\ state.active \in Names \union {NoName}
    /\ \A p \in Procs : proc[p].pc \in {"idle", "asked", "state"}
    /\ dirs \subseteq Dirs

(***************************************************************************)
(* At every moment, so also after a kill between the two files or a failed *)
(* second write, what is on disk can be read again: the configuration is   *)
(* valid and the active context exists in it, so that every directory      *)
(* resolves to nothing or to a context that exists.  (update_metadata      *)
(* writes two files; every later operation refuses a pair that does not    *)
(* fit, so a bad pair could not be repaired.)                              *)
(***************************************************************************)
Loadable ==
    \A c \in Decoded(config) :
        c.version = 2 =>
            /\ Valid(c) /\ StateValid(c, state.active)
            /\ \A d \in Paths :
                ResolvedAt(c, state.active, d) \in ContextsOf(c) \union {NoName}

(***************************************************************************)
(* The identities a process was given are those on disk, from then on and  *)
(* for every process: although decoding a version-1 file makes up new ones *)
(* each time, no process works with ones that were not persisted first.    *)
(* (persist_config_upgrade; two processes upgrade or initialize at once.)  *)
(***************************************************************************)
IdentityPersisted ==
    \A p \in Procs : held[p] # NoInstallation => config.version = 2 /\ config.inst = held[p]

(***************************************************************************)
(* The active context changes only by an activation that leads to exactly  *)
(* the profiles the operator has been shown, from exactly those they were  *)
(* told they leave, whatever other processes have done since; unless       *)
(* confirmation is switched off, waived for any change, or the profiles    *)
(* stay the same.  (activate_inner rechecks under the metadata lock.)      *)
(***************************************************************************)
Leaves == SelectionOf(config', Global(config', state.active))
Enters == SelectionOf(config', state'.active)
ActivationConfirmed(r) ==
    \/ ~ config'.confirm \/ r.consent = AnyChange \/ Leaves = Enters
    \/ Global(config', state.active) = NoName
    \/ r.shown = <<Leaves, Enters>>
SelectionConfirmed ==
    [][state'.active # state.active =>
         \E p \in Procs : /\ proc[p].pc # "idle" /\ proc'[p].pc = "idle"
                          /\ proc[p].req.kind = "use"
                          /\ state'.active = proc[p].req.target
                          /\ ActivationConfirmed(proc[p].req)]_vars
=============================================================================
