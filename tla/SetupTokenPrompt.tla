-------------------------- MODULE SetupTokenPrompt --------------------------
(***************************************************************************)
(* prompt_claude_setup_token: a long-lived token is typed or pasted into a *)
(* terminal whose echo is off, or piped in.  The user sees nothing of what *)
(* was entered, the terminal delivers keys at its own pace, signals arrive *)
(* at any moment, and every change of the terminal's mode may fail.        *)
(*                                                                         *)
(* Text is a sequence of marks: visible characters, "quote" among them;    *)
(* "blank" (space or tab), "newline", and "foreign" (a control character   *)
(* or another whitespace).                                                 *)
(***************************************************************************)
EXTENDS Naturals, Sequences, SequencesExt, FiniteSets

CONSTANTS
  Pastes,          \* what a paste or a pipe may contain
  Keys,            \* the keys a user presses
  MaxSecretBytes,  \* MAX_SECRET_BYTES, counted in marks
  MaxEvents,       \* bound: events of one prompt
  MaxQueued        \* bound: events the terminal holds unread

VisibleMarks == {"a", "quote"}
Marks == VisibleMarks \cup {"blank", "newline", "foreign"}

ASSUME PromptConstants ==
  /\ Pastes \subseteq Seq(Marks)
  /\ MaxSecretBytes \in Nat \ {0}
  /\ MaxEvents \in Nat /\ MaxQueued \in Nat \ {0}

VARIABLES
  pc,        \* where the prompt is
  shown,     \* the label has been written
  raw,       \* raw mode is on, so that input is not echoed
  paste,     \* bracketed paste: "off", "on", or "unknown" after an error
  failed,    \* attempts to leave each mode that failed
  queue,     \* events the terminal holds
  sent,      \* all events of this prompt, in order
  input,     \* ClaudeSetupTokenInput, and whether an error was recorded
  signal,    \* SIGINT, SIGTERM, SIGHUP: "none", "pending" or "taken"
  read,      \* read_result
  drained,   \* drain_result
  result     \* what the caller gets

terminal == <<shown, raw, paste, failed>>
vars == <<pc, terminal, queue, sent, input, signal, read, drained, result>>

(* The sequences of `parts`, one after the other.                          *)
Joined(parts) ==
  LET upTo[n \in 0 .. Len(parts)] ==
        IF n = 0 THEN <<>> ELSE upTo[n - 1] \o parts[n]
  IN upTo[Len(parts)]

VisibleOf(text) ==
  Joined([i \in DOMAIN text |-> IF text[i] \in VisibleMarks THEN <<text[i]>>
                                                           ELSE <<>>])

Key(k) == [key |-> k, text |-> <<>>]
Paste(t) == [key |-> "paste", text |-> t]
Events == {Key(k) : k \in Keys} \cup {Paste(t) : t \in Pastes}

(* A key release, a resize or another key: nothing is entered by it.       *)
Ignored(e) == e.key = "other"

EmptyInput == [value |-> <<>>, state |-> "Initial", rejected |-> FALSE]

Init ==
  /\ pc = "start" /\ shown = FALSE /\ raw = FALSE /\ paste = "off"
  /\ failed = [raw |-> 0, paste |-> 0]
  /\ queue = <<>> /\ sent = <<>> /\ input = EmptyInput
  /\ signal = "none" /\ read = "none" /\ drained = "none" /\ result = "none"

----------------------------------------------------------------------------
(* What is accepted as a token.                                            *)

NoBlankLine(text) ==
  \A i, j \in DOMAIN text :
    i < j /\ text[i] = "newline" /\ text[j] = "newline" =>
      \E k \in i .. j : text[k] \in VisibleMarks

NoInnerBlank(text) ==
  \A i, j, k \in DOMAIN text :
    /\ i < k /\ k < j
    /\ text[i] \in VisibleMarks /\ text[j] \in VisibleMarks
    /\ text[k] = "blank"
    => \E n \in i .. j : text[n] = "newline"

(* No quotes around it, and not empty; labels are left out.                *)
TokenValid(value) ==
  /\ value # <<>> /\ Len(value) <= MaxSecretBytes
  /\ Head(value) # "quote" /\ Last(value) # "quote"

(* One final line break is dropped; the other lines are trimmed and joined.*)
PasteContent(text) ==
  IF text # <<>> /\ Last(text) = "newline" THEN Front(text) ELSE text

PasteAccepted(text) ==
  LET content == PasteContent(text) IN
  /\ Len(text) <= MaxSecretBytes
  /\ "foreign" \notin {text[i] : i \in DOMAIN text}
  /\ NoBlankLine(<<"newline">> \o content \o <<"newline">>)
  /\ NoInnerBlank(content)
  /\ TokenValid(VisibleOf(content))

----------------------------------------------------------------------------
(* ClaudeSetupTokenInput.                                                  *)

Rejected(i) == [i EXCEPT !.rejected = TRUE]

PushCharacter(i, c) ==
  IF \/ i.state \in {"TrailingWhitespace", "BracketedPaste"}
     \/ c = "foreign"
     \/ Len(i.value) >= MaxSecretBytes
    THEN Rejected(i)
    ELSE [i EXCEPT !.value = Append(@, c), !.state = "Content"]

PushBlank(i) ==
  CASE i.state \in {"Initial", "ContinuationStart"} -> i
    [] i.state \in {"Content", "TrailingWhitespace"} ->
         [i EXCEPT !.state = "TrailingWhitespace"]
    [] i.state = "BracketedPaste" -> Rejected(i)

PushPaste(i, text) ==
  LET pasted == [i EXCEPT !.state = "BracketedPaste"] IN
  IF i.value = <<>> /\ i.state = "Initial" /\ PasteAccepted(text)
    THEN [pasted EXCEPT !.value = VisibleOf(text)]
    ELSE Rejected(pasted)

FromValue(value) == IF value = <<>> THEN "Initial" ELSE "Content"

Backspace(i) ==
  CASE i.state = "TrailingWhitespace" -> [i EXCEPT !.state = "Content"]
    [] i.state = "ContinuationStart" -> [i EXCEPT !.state = FromValue(i.value)]
    [] i.state = "Initial" -> i
    [] i.state \in {"Content", "BracketedPaste"} ->
         LET kept == IF i.value = <<>> THEN <<>> ELSE Front(i.value)
         IN [i EXCEPT !.value = kept, !.state = FromValue(kept)]

Submits(i) == i.state \in {"BracketedPaste", "ContinuationStart"}

(* Mutant: the error of an earlier key is forgotten at the end.            *)
FinishedForgetting(i) == IF TokenValid(i.value) THEN "ok" ELSE "rejected"

Finished(i) == IF ~i.rejected /\ TokenValid(i.value) THEN "ok" ELSE "rejected"

----------------------------------------------------------------------------
(* The terminal.                                                           *)

(* Mutant: an error while leaving one mode keeps the other.                *)
RestoredUntilError(ok) ==
  /\ ok.paste \in BOOLEAN /\ ok.raw \in BOOLEAN
  /\ paste' = IF paste = "off" \/ ok.paste THEN "off" ELSE "unknown"
  /\ raw' = (raw /\ (~ok.raw \/ paste' # "off"))
  /\ failed' = [failed EXCEPT !.paste = IF paste' = "off" THEN @ ELSE @ + 1,
                              !.raw = IF ~raw' \/ paste' # "off" THEN @ ELSE @ + 1]

(* HiddenInputGuard::restore: each mode that may be on is left, whatever   *)
(* became of the other.                                                    *)
Restored(ok) ==
  /\ paste' = IF paste = "off" \/ ok.paste THEN "off" ELSE "unknown"
  /\ raw' = (raw /\ ~ok.raw)
  /\ failed' = [failed EXCEPT !.paste = IF paste' = "off" THEN @ ELSE @ + 1,
                              !.raw = IF ~raw' THEN @ ELSE @ + 1]

Attempts == [paste : BOOLEAN, raw : BOOLEAN]

End(r) == pc' = "ended" /\ result' = r

(* Standard input is not a terminal: all of it is one paste.               *)
ReadPipe ==
  /\ pc = "start"
  /\ \E t \in Pastes :
       /\ sent' = <<Paste(t)>>
       /\ input' = PushPaste(EmptyInput, t)
       /\ End(IF PasteAccepted(t) THEN "ok" ELSE "rejected")
  /\ UNCHANGED <<terminal, queue, signal, read, drained>>

RefuseToAsk ==
  /\ pc = "start"
  /\ End("refused")
  /\ UNCHANGED <<terminal, queue, sent, input, signal, read, drained>>

(* HiddenInputGuard::enter: echo goes off before the label is visible.     *)
EnterRawMode ==
  /\ pc = "start"
  /\ \/ raw' = TRUE /\ pc' = "paste" /\ UNCHANGED result
     \/ raw' = raw /\ End("io")
  /\ UNCHANGED <<shown, paste, failed, queue, sent, input, signal, read, drained>>

(* Only when the prompt is written to a terminal.                          *)
EnterBracketedPaste ==
  /\ pc = "paste"
  /\ \/ paste' \in {"off", "on"} /\ pc' = "show" /\ UNCHANGED result
     \/ paste' = "unknown" /\ pc' = "drop" /\ result' = "io"
  /\ UNCHANGED <<shown, raw, failed, queue, sent, input, signal, read, drained>>

ShowLabel ==
  /\ pc = "show"
  /\ shown' = TRUE
  /\ \/ pc' = "loop" /\ UNCHANGED result
     \/ pc' = "drop" /\ result' = "io"
  /\ UNCHANGED <<raw, paste, failed, queue, sent, input, signal, read, drained>>

----------------------------------------------------------------------------
(* The loop of prompt_hidden_claude_setup_token.                           *)

Open == pc \in {"paste", "show", "loop", "drain"}

(* The user and the outside.                                               *)
Send ==
  /\ Open /\ Len(sent) < MaxEvents /\ Len(queue) < MaxQueued
  /\ \E e \in Events : sent' = Append(sent, e) /\ queue' = Append(queue, e)
  /\ UNCHANGED <<pc, terminal, input, signal, read, drained, result>>

Signal ==
  /\ Open \/ pc = "restore"
  /\ signal = "none" /\ signal' = "pending"
  /\ UNCHANGED <<pc, terminal, queue, sent, input, read, drained, result>>

Break(r) == read' = r /\ pc' = "drain"

LoopSignal ==
  /\ pc = "loop" /\ signal = "pending"
  /\ signal' = "taken"
  /\ Break("interrupted")
  /\ UNCHANGED <<terminal, queue, sent, input, drained, result>>

(* event::poll, event::read or the continuation text fails.                *)
LoopFails ==
  /\ pc = "loop" /\ signal # "pending"
  /\ Break("io")
  /\ UNCHANGED <<terminal, queue, sent, input, signal, drained, result>>

Edited(i, e) ==
  CASE e.key \in VisibleMarks \cup {"foreign"} -> PushCharacter(i, e.key)
    [] e.key = "blank" -> PushBlank(i)
    [] e.key = "backspace" -> Backspace(i)
    [] e.key = "paste" -> PushPaste(i, e.text)
    [] e.key = "enter" /\ ~Submits(i) -> [i EXCEPT !.state = "ContinuationStart"]
    [] OTHER -> i

LoopEvent ==
  /\ pc = "loop" /\ signal # "pending" /\ queue # <<>>
  /\ LET e == Head(queue) IN
     /\ queue' = Tail(queue)
     /\ input' = Edited(input, e)
     /\ CASE e.key = "ctrl_c" -> Break("interrupted")
          [] e.key = "esc" -> Break("cancelled")
          [] e.key = "ctrl_d" \/ (e.key = "enter" /\ Submits(input)) ->
               Break(Finished(input))
          [] OTHER -> UNCHANGED <<read, pc>>
  /\ UNCHANGED <<terminal, sent, signal, drained, result>>

----------------------------------------------------------------------------
(* reject_queued_secret_input.  Its deadline is assumed not to pass before *)
(* its first poll, so that what was queued when it ended has been seen.    *)

DrainSignal ==
  /\ pc = "drain" /\ signal = "pending"
  /\ signal' = "taken" /\ drained' = "interrupted"
  /\ UNCHANGED <<pc, terminal, queue, sent, input, read, result>>

DrainEvent ==
  /\ pc = "drain" /\ queue # <<>>
  /\ queue' = Tail(queue)
  /\ drained' = IF Ignored(Head(queue)) \/ drained # "none" THEN drained ELSE "extra"
  /\ UNCHANGED <<pc, terminal, sent, input, signal, read, result>>

DrainFails ==
  /\ pc = "drain"
  /\ drained' = "io" /\ pc' = "restore"
  /\ UNCHANGED <<terminal, queue, sent, input, signal, read, result>>

DrainEnds ==
  /\ pc = "drain" /\ signal # "pending"
  /\ queue = <<>> \/ drained # "none"
  /\ pc' = "restore"
  /\ UNCHANGED <<terminal, queue, sent, input, signal, read, drained, result>>

----------------------------------------------------------------------------
(* The end.                                                                *)

(* resolve_prompt_result: a terminal left as it was comes first, then the  *)
(* signal, then why reading ended.                                         *)
Resolved(restored) ==
  CASE ~restored -> "restore"
    [] restored /\ \/ signal = "pending"
                   \/ read = "interrupted" \/ drained = "interrupted" -> "interrupted"
    [] OTHER -> IF read # "ok" THEN read
                ELSE IF drained # "none" THEN drained ELSE "ok"

RestoreTerminal ==
  /\ pc = "restore"
  /\ \E ok \in Attempts, line \in BOOLEAN :
       /\ Restored(ok)
       /\ result' = Resolved(paste' = "off" /\ ~raw' /\ line)
  /\ signal' = IF signal = "pending" THEN "taken" ELSE signal
  /\ pc' = "drop"
  /\ UNCHANGED <<shown, queue, sent, input, read, drained>>

(* Drop of HiddenInputGuard: what could not be left is tried once more.    *)
DropGuard ==
  /\ pc = "drop"
  /\ \E ok \in Attempts : Restored(ok)
  /\ pc' = "ended"
  /\ UNCHANGED <<shown, queue, sent, input, signal, read, drained, result>>

(* A panic: the hook restores before the report, the guard while unwinding.*)
Panic ==
  /\ pc \in {"loop", "drain"}
  /\ \E ok \in Attempts : Restored(ok)
  /\ pc' = "drop" /\ result' = "panic"
  /\ UNCHANGED <<shown, queue, sent, input, signal, read, drained>>

Next ==
  \/ ReadPipe \/ RefuseToAsk
  \/ EnterRawMode \/ EnterBracketedPaste \/ ShowLabel
  \/ Send \/ Signal
  \/ LoopSignal \/ LoopFails \/ LoopEvent
  \/ DrainSignal \/ DrainEvent \/ DrainFails \/ DrainEnds
  \/ RestoreTerminal \/ DropGuard \/ Panic

Spec == Init /\ [][Next]_vars

----------------------------------------------------------------------------
(* Properties.                                                             *)

(* The text of the events, in order, with no correction applied.           *)
TextOf(e) ==
  CASE e.key \in VisibleMarks \cup {"blank", "foreign"} -> <<e.key>>
    [] e.key = "enter" -> <<"newline">>
    [] OTHER -> e.text

Typed(events) == Joined([i \in DOMAIN events |-> TextOf(events[i])])

Corrections(events) ==
  Cardinality({i \in DOMAIN events : events[i].key = "backspace"})

(* A token is accepted only as the whole of what was entered, although the *)
(* user cannot see it: no rejected key, no event after the end, no signal  *)
(* in between, and without corrections exactly the visible characters of   *)
(* all lines, none of which holds a gap (secret.rs).                       *)
AcceptedIsEntered ==
  LET text == Typed(sent) IN
  result = "ok" =>
    /\ TokenValid(input.value)
    /\ ~input.rejected
    /\ signal = "none"
    /\ Len(VisibleOf(text)) <= Len(input.value) + Corrections(sent)
    /\ Corrections(sent) = 0 =>
         /\ input.value = VisibleOf(text)
         /\ NoInnerBlank(text)
         /\ "foreign" \notin {text[i] : i \in DOMAIN text}

(* Echo is off from before the label is visible until reading is over; and *)
(* however the prompt ends, neither mode stays on unless leaving it failed *)
(* each time, which is twice once keys were read (secret.rs).              *)
TerminalRestored ==
  /\ shown /\ pc \in {"loop", "drain"} => raw
  /\ result = "ok" /\ pc = "drop" => ~raw /\ paste = "off"
  /\ pc = "ended" =>
       LET tries == IF result = "io" /\ read = "none" THEN 1 ELSE 2 IN
       /\ raw => failed.raw >= tries
       /\ paste # "off" => failed.paste >= tries
============================================================================
