----------------------- MODULE SetupTokenPromptProofs -----------------------
(***************************************************************************)
(* Theorems about SetupTokenPrompt: whatever is entered, and whatever      *)
(* fails on the way, the terminal gets its modes back; and a token that is *)
(* accepted is all of what was entered, for any keys, pastes and number of *)
(* events.                                                                 *)
(*                                                                         *)
(* Joined is a recursive function, and its recursion is well founded, so   *)
(* what it joins of one part more, and of two sequences of parts, follows  *)
(* from the least length at which it would not.                            *)
(***************************************************************************)
EXTENDS SetupTokenPrompt, FiniteSetTheorems, SequenceTheorems,
        WellFoundedInduction, TLAPS

(* Where the prompt is tells what was turned on and what was tried: echo   *)
(* is off while keys are read, reading ended for a reason, and the guard's *)
(* drop finds one failed attempt behind it unless reading never began.     *)
TerminalTypes ==
  /\ pc \in {"start", "paste", "show", "loop", "drain", "restore", "drop", "ended"}
  /\ shown \in BOOLEAN /\ raw \in BOOLEAN
  /\ paste \in {"off", "on", "unknown"}
  /\ failed \in [raw : Nat, paste : Nat]

Tried(n) == /\ raw => failed.raw >= n
            /\ paste # "off" => failed.paste >= n

NeverRead == result = "io" /\ read = "none"

ModesKnown ==
  /\ pc = "start" => ~raw /\ paste = "off"
  /\ pc \in {"start", "paste", "show", "loop"} => read = "none"
  /\ pc \in {"drain", "restore"} => read # "none"
  /\ pc \in {"paste", "show", "loop", "drain"} => raw
  /\ pc \in {"start", "paste", "show", "loop", "drain", "restore"} => result = "none"
  /\ pc = "drop" =>
       /\ NeverRead \/ Tried(1)
       /\ result = "ok" => ~raw /\ paste = "off"
  /\ pc = "ended" => Tried(IF NeverRead THEN 1 ELSE 2)

PromptInv == TerminalTypes /\ ModesKnown

-----------------------------------------------------------------------------
(* The invariant gives the property.                                       *)
LEMMA InvGivesRestored == PromptInv => TerminalRestored
BY DEF PromptInv, TerminalTypes, ModesKnown, Tried, NeverRead, TerminalRestored

LEMMA InitInv == Init => PromptInv
<1> SUFFICES ASSUME Init PROVE PromptInv  OBVIOUS
<1>1. shown \in BOOLEAN /\ raw \in BOOLEAN /\ ~raw  BY Zenon DEF Init
<1> QED  BY <1>1 DEF Init, PromptInv, TerminalTypes, ModesKnown, Tried, NeverRead

(* An attempt to leave both modes leaves each of them or counts against it.*)
LEMMA AttemptCounts ==
  ASSUME TerminalTypes, NEW ok \in Attempts, Restored(ok)
  PROVE  /\ raw' \in BOOLEAN /\ paste' \in {"off", "unknown"}
         /\ failed' \in [raw : Nat, paste : Nat]
         /\ raw' => raw /\ failed'.raw = failed.raw + 1
         /\ paste' # "off" => paste # "off" /\ failed'.paste = failed.paste + 1
<1>1. ok.raw \in BOOLEAN /\ ok.paste \in BOOLEAN  BY DEF Attempts
<1>2. raw' \in BOOLEAN /\ paste' \in {"off", "unknown"}
  BY <1>1 DEF Restored, TerminalTypes
<1>3. failed' = [raw |-> IF ~raw' THEN failed.raw ELSE failed.raw + 1,
                 paste |-> IF paste' = "off" THEN failed.paste
                                             ELSE failed.paste + 1]
  BY <1>2 DEF Restored, TerminalTypes
<1>4. raw' => raw  BY Zenon DEF Restored
<1>5. paste' # "off" => paste # "off"  BY Zenon DEF Restored
<1>6. failed' \in [raw : Nat, paste : Nat]  BY <1>3 DEF TerminalTypes
<1>7. raw' => failed'.raw = failed.raw + 1  BY <1>3
<1>8. paste' # "off" => failed'.paste = failed.paste + 1  BY <1>3
<1> QED  BY <1>2, <1>4, <1>5, <1>6, <1>7, <1>8

-----------------------------------------------------------------------------
LEMMA NextInv == PromptInv /\ [Next]_vars => PromptInv'
<1> SUFFICES ASSUME PromptInv, [Next]_vars PROVE PromptInv'
  OBVIOUS
<1> USE DEF PromptInv, TerminalTypes, ModesKnown, Tried, NeverRead
<1>1. CASE ReadPipe  BY <1>1 DEF ReadPipe, End, terminal
<1>2. CASE RefuseToAsk  BY <1>2 DEF RefuseToAsk, End, terminal
<1>3. CASE EnterRawMode
  <2>1. \/ /\ raw' \in BOOLEAN /\ raw' /\ pc' = "paste" /\ result' = result
        \/ raw' = raw /\ pc' = "ended" /\ result' = "io"
    BY <1>3, Zenon DEF EnterRawMode, End
  <2> QED  BY <1>3, <2>1 DEF EnterRawMode
<1>4. CASE EnterBracketedPaste  BY <1>4 DEF EnterBracketedPaste
<1>5. CASE ShowLabel
  <2>1. shown' \in BOOLEAN  BY <1>5, Zenon DEF ShowLabel
  <2>2. /\ pc = "show"
        /\ raw' = raw /\ paste' = paste /\ failed' = failed /\ read' = read
        /\ \/ pc' = "loop" /\ result' = result
           \/ pc' = "drop" /\ result' = "io"
    BY <1>5, Zenon DEF ShowLabel
  <2>3. raw /\ result = "none" /\ read = "none"  BY <2>2
  <2>4. TerminalTypes'  BY <2>1, <2>2
  <2> QED  BY <2>2, <2>3, <2>4
<1>6. CASE Send  BY <1>6 DEF Send, terminal
<1>7. CASE Signal  BY <1>7 DEF Signal, terminal
<1>8. CASE LoopSignal  BY <1>8 DEF LoopSignal, Break, terminal
<1>9. CASE LoopFails  BY <1>9 DEF LoopFails, Break, terminal
<1>10. CASE LoopEvent
  <2>1. \/ pc' = pc /\ read' = read
        \/ /\ pc' = "drain"
           /\ read' \in {"interrupted", "cancelled", "ok", "rejected"}
    BY <1>10 DEF LoopEvent, Break, Finished
  <2> QED  BY <1>10, <2>1 DEF LoopEvent, terminal
<1>11. CASE DrainSignal  BY <1>11 DEF DrainSignal, terminal
<1>12. CASE DrainEvent  BY <1>12 DEF DrainEvent, terminal
<1>13. CASE DrainFails  BY <1>13 DEF DrainFails, terminal
<1>14. CASE DrainEnds  BY <1>14 DEF DrainEnds, terminal
<1>15. CASE RestoreTerminal
  <2>1. PICK ok \in Attempts, line \in BOOLEAN :
          /\ Restored(ok)
          /\ result' = Resolved(paste' = "off" /\ ~raw' /\ line)
    BY <1>15 DEF RestoreTerminal
  <2>2. Tried(1)'  BY <2>1, AttemptCounts
  <2>3. result' = "ok" => paste' = "off" /\ ~raw'
    BY <2>1 DEF Resolved
  <2> QED  BY <1>15, <2>1, <2>2, <2>3, AttemptCounts DEF RestoreTerminal
<1>16. CASE DropGuard
  <2>1. PICK ok \in Attempts : Restored(ok)  BY <1>16 DEF DropGuard
  <2> QED  BY <1>16, <2>1, AttemptCounts DEF DropGuard
<1>17. CASE Panic
  <2>1. PICK ok \in Attempts : Restored(ok)  BY <1>17 DEF Panic
  <2> QED  BY <1>17, <2>1, AttemptCounts DEF Panic
<1>18. CASE UNCHANGED vars  BY <1>18 DEF vars, terminal
<1> QED  BY <1>1, <1>2, <1>3, <1>4, <1>5, <1>6, <1>7, <1>8, <1>9, <1>10, <1>11,
            <1>12, <1>13, <1>14, <1>15, <1>16, <1>17, <1>18 DEF Next

(* Echo stays off while keys are read, an accepted token implies a restored*)
(* terminal, and a mode only stays on when every attempt to leave it failed*)
(* (HiddenInputGuard), for any keys, pastes and length of the prompt.      *)
THEOREM TerminalAlwaysRestored == Spec => []TerminalRestored
<1>1. Spec => []PromptInv  BY InitInv, NextInv, PTL DEF Spec
<1> QED  BY <1>1, InvGivesRestored, PTL

-----------------------------------------------------------------------------
(* What Joined computes.                                                   *)

LEMMA LeastNat ==
  ASSUME NEW T \in SUBSET Nat, T # {}
  PROVE  \E n \in T : \A m \in T : n <= m
<1> DEFINE R == OpToRel(<, Nat)
<1>1. IsWellFoundedOn(R, Nat)
  BY NatLessThanWellFounded
<1>2. \A x \in Nat : \A y \in Nat : y < x => <<y, x>> \in R
  BY DEF OpToRel
<1> HIDE DEF R
<1>3. PICK x \in T : \A y \in T : ~ (<<y, x>> \in R)
  BY <1>1, WFMin
<1>4. ASSUME NEW y \in T
      PROVE  x <= y
  <2>1. x \in Nat /\ y \in Nat
    OBVIOUS
  <2>2. ~ (y < x)
    BY <1>2, <1>3, <2>1, Zenon
  <2> QED
    BY <2>1, <2>2
<1> QED
  BY <1>4

(* Joins(f, s): f is what Joined computes for s, part by part.             *)
Joins(f, s) ==
  f = [n \in 0 .. Len(s) |-> IF n = 0 THEN <<>> ELSE f[n - 1] \o s[n]]

LEMMA JoinsSteps ==
  ASSUME NEW s, Len(s) \in Nat, NEW f, Joins(f, s)
  PROVE  f[0] = <<>> /\ \A n \in 1 .. Len(s) : f[n] = f[n - 1] \o s[n]
<1>1. \A n \in 0 .. Len(s) : f[n] = IF n = 0 THEN <<>> ELSE f[n - 1] \o s[n]
  <2> DEFINE g == [n \in 0 .. Len(s) |-> IF n = 0 THEN <<>> ELSE f[n - 1] \o s[n]]
  <2>1. f = g
    BY DEF Joins
  <2>2. \A n \in 0 .. Len(s) : g[n] = IF n = 0 THEN <<>> ELSE f[n - 1] \o s[n]
    OBVIOUS
  <2> HIDE DEF g
  <2> QED
    BY <2>1, <2>2
<1>2. 0 \in 0 .. Len(s) /\ \A n \in 1 .. Len(s) : n \in 0 .. Len(s) /\ n # 0
  OBVIOUS
<1> QED
  BY <1>1, <1>2

(* The recursion of Joined is well founded, so that it computes something. *)
LEMMA JoinsExists ==
  ASSUME NEW S, NEW s \in Seq(Seq(S))
  PROVE  \E f : Joins(f, s)
<1> DEFINE Up(n, f) == 
             f = [i \in 0 .. n |-> IF i = 0 THEN <<>> ELSE f[i - 1] \o s[i]]
           T == {n \in 0 .. Len(s) : ~ \E f : Up(n, f)}
<1>1. Len(s) \in Nat /\ 0 .. Len(s) \in SUBSET Nat
  BY LenProperties
<1>2. T = {}
  <2>1. SUFFICES ASSUME T # {} PROVE FALSE
    OBVIOUS
  <2>2. PICK n \in T : \A m \in T : n <= m
    <3>1. T \in SUBSET Nat
      BY <1>1, Zenon
    <3> HIDE DEF T
    <3> QED
      BY <2>1, <3>1, LeastNat
  <2>3. n \in 0 .. Len(s) /\ ~ (\E f : Up(n, f))
    OBVIOUS
  <2>4. CASE n = 0
    <3> DEFINE g == [i \in 0 .. 0 |-> <<>>]
               h == [i \in 0 .. 0 |-> IF i = 0 THEN <<>> ELSE g[i - 1] \o s[i]]
    <3>1. \A i \in 0 .. 0 : i = 0
      OBVIOUS
    <3>2. \A i \in 0 .. 0 : g[i] = h[i]
      BY <3>1
    <3>3. g = h
      BY <3>2
    <3>4. Up(0, g)
      BY <3>3
    <3> QED
      BY <2>3, <2>4, <3>1
  <2>5. CASE n # 0
    <3> HIDE DEF Up
    <3>1. n \in 1 .. Len(s) /\ n - 1 \in 0 .. Len(s) /\ ~ (n <= n - 1)
      BY <1>1, <2>3, <2>5
    <3>2. PICK f : Up(n - 1, f)
      <4>1. n - 1 \notin T
        BY <2>2, <3>1, Zenon
      <4> QED
        BY <3>1, <4>1
    <3> USE DEF Up
    <3> DEFINE g == [i \in 0 .. n |-> IF i = n THEN f[n - 1] \o s[n] ELSE f[i]]
               h == [i \in 0 .. n |-> IF i = 0 THEN <<>> ELSE g[i - 1] \o s[i]]
    <3>3. \A i \in 0 .. n - 1 : f[i] = IF i = 0 THEN <<>> ELSE f[i - 1] \o s[i]
      <4> DEFINE k == [i \in 0 .. n - 1 |-> IF i = 0 THEN <<>> ELSE f[i - 1] \o s[i]]
      <4>1. f = k
        BY <3>2
      <4>2. \A i \in 0 .. n - 1 : k[i] = IF i = 0 THEN <<>> ELSE f[i - 1] \o s[i]
        OBVIOUS
      <4> HIDE DEF k
      <4> QED
        BY <4>1, <4>2
    <3>4. ASSUME NEW i \in 0 .. n PROVE g[i] = h[i]
      <4>1. CASE i = n
        <5>1. n - 1 \in 0 .. n /\ n - 1 # n /\ n # 0
          BY <3>1
        <5>2. g[n - 1] = f[n - 1]
          BY <5>1
        <5>4. n \in 0 .. n
          BY <3>1
        <5>5. g[n] = f[n - 1] \o s[n]
          BY <5>4
        <5>3. h[n] = g[n - 1] \o s[n]
          BY <4>1, <5>1
        <5> QED
          BY <4>1, <5>2, <5>3, <5>5
      <4>2. CASE i # n
        <5>1. i \in 0 .. n - 1 /\ (i # 0 => i - 1 \in 0 .. n - 1)
          BY <3>1, <4>2
        <5>2. g[i] = f[i] /\ (i # 0 => g[i - 1] = f[i - 1])
          BY <3>1, <4>2, <5>1
        <5> QED
          BY <3>3, <5>1, <5>2
      <4> QED
        BY <4>1, <4>2
    <3>5. g = h
      BY <3>4
    <3> QED
      BY <2>3, <3>5
  <2> QED
    BY <2>4, <2>5
<1>3. Len(s) \in 0 .. Len(s)
  BY <1>1
<1>4. PICK f : Up(Len(s), f)
  BY <1>2, <1>3, Zenon
<1> QED
  BY <1>4 DEF Joins

LEMMA JoinedIs ==
  ASSUME NEW S, NEW s \in Seq(Seq(S))
  PROVE  \E f : Joins(f, s) /\ Joined(s) = f[Len(s)]
<1> DEFINE f == CHOOSE f : Joins(f, s)
<1>1. Joins(f, s)
  BY JoinsExists
<1>2. Joined(s) = f[Len(s)]
  BY DEF Joined, Joins
<1> QED
  BY <1>1, <1>2

(* Two such computations agree as far as the parts do.                     *)
LEMMA JoinsAgree ==
  ASSUME NEW s, NEW t, Len(s) \in Nat, Len(t) \in Nat, Len(s) <= Len(t),
         \A i \in 1 .. Len(s) : s[i] = t[i],
         NEW f, NEW g, Joins(f, s), Joins(g, t)
  PROVE  \A n \in 0 .. Len(s) : f[n] = g[n]
<1> DEFINE T == {n \in 0 .. Len(s) : f[n] # g[n]}
<1>1. SUFFICES ASSUME T # {} PROVE FALSE
  OBVIOUS
<1>2. PICK n \in T : \A m \in T : n <= m
  <2>1. T \in SUBSET Nat
    OBVIOUS
  <2> QED
    BY <1>1, <2>1, LeastNat
<1>3. n \in 0 .. Len(s) /\ f[n] # g[n]
  BY <1>2
<1>4. /\ f[0] = <<>> /\ g[0] = <<>>
      /\ \A i \in 1 .. Len(s) : f[i] = f[i - 1] \o s[i]
      /\ \A i \in 1 .. Len(t) : g[i] = g[i - 1] \o t[i]
  BY JoinsSteps
<1>5. n \in 1 .. Len(s) /\ n - 1 \in 0 .. Len(s) /\ n \in 1 .. Len(t)
  BY <1>3, <1>4
<1>6. f[n - 1] = g[n - 1]
  <2>1. n - 1 \notin T
    <3>1. ~ (n <= n - 1)
      BY <1>5
    <3> QED
      BY <1>2, <3>1
  <2> QED
    BY <1>5, <2>1
<1> QED
  BY <1>3, <1>4, <1>5, <1>6

LEMMA JoinsType ==
  ASSUME NEW S, NEW s \in Seq(Seq(S)), NEW f, Joins(f, s)
  PROVE  \A n \in 0 .. Len(s) : f[n] \in Seq(S)
<1> DEFINE T == {n \in 0 .. Len(s) : f[n] \notin Seq(S)}
<1>1. Len(s) \in Nat
  BY LenProperties
<1>2. SUFFICES ASSUME T # {} PROVE FALSE
  OBVIOUS
<1>3. PICK n \in T : \A m \in T : n <= m
  <2>1. T \in SUBSET Nat
    BY <1>1
  <2> QED
    BY <1>2, <2>1, LeastNat
<1>4. n \in 0 .. Len(s) /\ f[n] \notin Seq(S)
  BY <1>3
<1>5. f[0] = <<>> /\ \A i \in 1 .. Len(s) : f[i] = f[i - 1] \o s[i]
  BY <1>1, JoinsSteps
<1>6. n \in 1 .. Len(s) /\ n - 1 \in 0 .. Len(s)
  <2>1. n # 0
    BY <1>4, <1>5, EmptySeq
  <2> QED
    BY <1>1, <1>4, <2>1
<1>7. f[n - 1] \in Seq(S)
  <2>1. ~ (n <= n - 1)
    BY <1>6
  <2>2. n - 1 \notin T
    BY <1>3, <2>1
  <2> QED
    BY <1>6, <2>2
<1>8. s[n] \in Seq(S)
  BY <1>6, ElementOfSeq
<1> QED
  BY <1>4, <1>5, <1>6, <1>7, <1>8, ConcatProperties

LEMMA JoinedType ==
  ASSUME NEW S, NEW s \in Seq(Seq(S))
  PROVE  Joined(s) \in Seq(S)
<1>1. PICK f : Joins(f, s) /\ Joined(s) = f[Len(s)]
  BY JoinedIs
<1>2. Len(s) \in Nat
  BY LenProperties
<1> QED
  BY <1>1, <1>2, JoinsType

LEMMA JoinedEmpty == Joined(<<>>) = <<>>
<1> DEFINE S == {}
<1>1. <<>> \in Seq(Seq(S)) /\ Len(<<>>) = 0
  BY EmptySeq
<1>2. PICK f : Joins(f, <<>>) /\ Joined(<<>>) = f[Len(<<>>)]
  BY <1>1, JoinedIs
<1> QED
  BY <1>1, <1>2, JoinsSteps

LEMMA JoinedLast ==
  ASSUME NEW S, NEW s \in Seq(Seq(S)), NEW t \in Seq(Seq(S)),
         Len(t) = Len(s) + 1, \A i \in 1 .. Len(s) : s[i] = t[i]
  PROVE  Joined(t) = Joined(s) \o t[Len(s) + 1]
<1>1. Len(s) \in Nat /\ Len(t) \in Nat
  BY LenProperties
<1>2. PICK f : Joins(f, s) /\ Joined(s) = f[Len(s)]
  BY JoinedIs
<1>3. PICK g : Joins(g, t) /\ Joined(t) = g[Len(t)]
  BY JoinedIs
<1>4. Len(s) <= Len(t) /\ Len(s) \in 0 .. Len(s)
  BY <1>1
<1>5. \A n \in 0 .. Len(s) : f[n] = g[n]
  BY <1>1, <1>2, <1>3, <1>4, JoinsAgree
<1>6. Len(t) \in 1 .. Len(t) /\ Len(t) - 1 = Len(s)
  BY <1>1
<1>7. g[Len(t)] = g[Len(t) - 1] \o t[Len(t)]
  BY <1>1, <1>3, <1>6, JoinsSteps
<1> QED
  BY <1>2, <1>3, <1>4, <1>5, <1>6, <1>7

LEMMA JoinedAppend ==
  ASSUME NEW S, NEW s \in Seq(Seq(S)), NEW p \in Seq(S)
  PROVE  Joined(Append(s, p)) = Joined(s) \o p
<1>1. /\ Append(s, p) \in Seq(Seq(S))
      /\ Len(Append(s, p)) = Len(s) + 1
      /\ \A i \in 1 .. Len(s) : s[i] = Append(s, p)[i]
      /\ Append(s, p)[Len(s) + 1] = p
  BY AppendProperties
<1>2. Joined(Append(s, p)) = Joined(s) \o Append(s, p)[Len(s) + 1]
  BY <1>1, JoinedLast
<1> QED
  BY <1>1, <1>2

LEMMA JoinedThree ==
  ASSUME NEW S, NEW s \in Seq(Seq(S)), NEW t \in Seq(Seq(S)), NEW p \in Seq(S)
  PROVE  (Joined(s) \o Joined(t)) \o p = Joined(s) \o (Joined(t) \o p)
<1>1. PICK a \in Seq(S) : a = Joined(s)
  BY JoinedType
<1>2. PICK b \in Seq(S) : b = Joined(t)
  BY JoinedType
<1>3. (a \o b) \o p = a \o (b \o p)
  BY ConcatAssociative
<1> QED
  BY <1>1, <1>2, <1>3

(* Joined of two sequences of parts, by the length of the second.          *)
LEMMA JoinedConcat ==
  ASSUME NEW S, NEW s \in Seq(Seq(S)), NEW t \in Seq(Seq(S))
  PROVE  Joined(s \o t) = Joined(s) \o Joined(t)
<1> DEFINE Split(u) == Joined(s \o u) = Joined(s) \o Joined(u)
           T == {n \in Nat : \E u \in Seq(Seq(S)) : Len(u) = n /\ ~Split(u)}
<1>1. SUFFICES ASSUME ~Split(t) PROVE FALSE
  OBVIOUS
<1> HIDE DEF Split
<1>2. Len(t) \in T
  BY <1>1, LenProperties
<1>3. PICK n \in T : \A m \in T : n <= m
  <2>1. T \in SUBSET Nat /\ T # {}
    BY <1>2
  <2> HIDE DEF T
  <2> QED
    BY <2>1, LeastNat
<1>4. n \in Nat
  OBVIOUS
<1>5. PICK u \in Seq(Seq(S)) : Len(u) = n /\ ~Split(u)
  OBVIOUS
<1>6. u # <<>>
  <2>1. SUFFICES ASSUME u = <<>> PROVE Split(u)
    BY <1>5
  <2>2. s \o <<>> = s /\ Joined(s) \o <<>> = Joined(s)
    BY ConcatEmptySeq, JoinedType
  <2> QED
    BY <2>1, <2>2, JoinedEmpty DEF Split
<1>7. PICK v \in Seq(Seq(S)), p \in Seq(S) : u = Append(v, p)
  BY <1>6, SequenceEmptyOrAppend
<1>8. Split(v)
  <2>1. Len(v) \in Nat /\ Len(u) = Len(v) + 1
    BY <1>7, AppendProperties, LenProperties
  <2>2. Len(v) \notin T
    <3> HIDE DEF T
    <3> QED
      BY <1>3, <1>4, <1>5, <2>1
  <2> QED
    BY <2>1, <2>2
<1>9. s \o u = Append(s \o v, p)
  <2>1. /\ u = v \o <<p>>
        /\ Append(s \o v, p) = (s \o v) \o <<p>>
        /\ <<p>> \in Seq(Seq(S))
    BY <1>7, AppendIsConcat, ConcatProperties
  <2> QED
    BY <2>1, ConcatAssociative
<1>10. Joined(s \o u) = (Joined(s) \o Joined(v)) \o p
  <2>1. s \o v \in Seq(Seq(S))
    BY ConcatProperties
  <2> QED
    BY <1>8, <1>9, <2>1, JoinedAppend DEF Split
<1> HIDE DEF T
<1>11. (Joined(s) \o Joined(v)) \o p = Joined(s) \o (Joined(v) \o p)
  BY JoinedThree
<1>12. Joined(u) = Joined(v) \o p
  BY <1>7, JoinedAppend
<1> QED
  BY <1>5, <1>10, <1>11, <1>12 DEF Split

-----------------------------------------------------------------------------
(* The visible characters of a text.                                       *)

Shown(m) == IF m \in VisibleMarks THEN <<m>> ELSE <<>>

LEMMA ShownType ==
  ASSUME NEW m
  PROVE  Shown(m) \in Seq(VisibleMarks)
BY DEF Shown

LEMMA VisibleParts ==
  ASSUME NEW text \in Seq(Marks)
  PROVE  LET parts == [i \in DOMAIN text |-> IF text[i] \in VisibleMarks
                                              THEN <<text[i]>> ELSE <<>>] IN
         /\ VisibleOf(text) = Joined(parts)
         /\ parts \in Seq(Seq(VisibleMarks)) /\ Len(parts) = Len(text)
         /\ \A i \in 1 .. Len(text) : parts[i] = Shown(text[i])
<1> DEFINE parts == [i \in DOMAIN text |-> IF text[i] \in VisibleMarks
                                            THEN <<text[i]>> ELSE <<>>]
<1>1. DOMAIN text = 1 .. Len(text) /\ Len(text) \in Nat
  BY LenProperties
<1>2. DOMAIN parts = 1 .. Len(text)
  BY <1>1
<1>3. \A i \in 1 .. Len(text) : parts[i] = Shown(text[i])
  BY <1>1 DEF Shown
<1>4. parts = [i \in 1 .. Len(text) |-> parts[i]]
  BY <1>1
<1> HIDE DEF parts
<1>5. parts \in [1 .. Len(text) -> Seq(VisibleMarks)]
  BY <1>3, <1>4, ShownType
<1>6. parts \in Seq(Seq(VisibleMarks)) /\ Len(parts) = Len(text)
  BY <1>1, <1>2, <1>5
<1> QED
  BY <1>3, <1>6 DEF parts, VisibleOf

LEMMA VisibleType ==
  ASSUME NEW text \in Seq(Marks)
  PROVE  VisibleOf(text) \in Seq(VisibleMarks)
BY VisibleParts, JoinedType

LEMMA VisibleConcat ==
  ASSUME NEW s \in Seq(Marks), NEW t \in Seq(Marks)
  PROVE  VisibleOf(s \o t) = VisibleOf(s) \o VisibleOf(t)
<1>1. PICK p \in Seq(Seq(VisibleMarks)) :
        /\ VisibleOf(s) = Joined(p) /\ Len(p) = Len(s)
        /\ \A i \in 1 .. Len(s) : p[i] = Shown(s[i])
  BY VisibleParts, Zenon
<1>2. PICK q \in Seq(Seq(VisibleMarks)) :
        /\ VisibleOf(t) = Joined(q) /\ Len(q) = Len(t)
        /\ \A i \in 1 .. Len(t) : q[i] = Shown(t[i])
  BY VisibleParts, Zenon
<1>3. /\ s \o t \in Seq(Marks) /\ Len(s \o t) = Len(s) + Len(t)
      /\ \A i \in 1 .. Len(s) + Len(t) :
           (s \o t)[i] = IF i <= Len(s) THEN s[i] ELSE t[i - Len(s)]
      /\ Len(s) \in Nat /\ Len(t) \in Nat
  BY ConcatProperties, LenProperties
<1>4. PICK r \in Seq(Seq(VisibleMarks)) :
        /\ VisibleOf(s \o t) = Joined(r) /\ Len(r) = Len(s \o t)
        /\ \A i \in 1 .. Len(s \o t) : r[i] = Shown((s \o t)[i])
  BY <1>3, VisibleParts, Zenon
<1>5. /\ p \o q \in Seq(Seq(VisibleMarks)) /\ Len(p \o q) = Len(p) + Len(q)
      /\ \A i \in 1 .. Len(p) + Len(q) :
           (p \o q)[i] = IF i <= Len(p) THEN p[i] ELSE q[i - Len(p)]
  BY ConcatProperties
<1>6. ASSUME NEW i \in 1 .. Len(r) PROVE r[i] = (p \o q)[i]
  <2>1. r[i] = Shown((s \o t)[i]) /\ i \in 1 .. Len(s) + Len(t)
    BY <1>3, <1>4
  <2>2. CASE i <= Len(s)
    BY <1>1, <1>2, <1>3, <1>5, <2>1, <2>2
  <2>3. CASE ~ (i <= Len(s))
    <3>1. i - Len(s) \in 1 .. Len(t)
      BY <1>3, <2>1, <2>3
    <3> QED
      BY <1>1, <1>2, <1>3, <1>5, <2>1, <2>3, <3>1
  <2> QED
    BY <2>2, <2>3
<1>7. r = p \o q
  BY <1>1, <1>2, <1>3, <1>4, <1>5, <1>6, SeqEqual
<1> QED
  BY <1>1, <1>2, <1>4, <1>7, JoinedConcat

LEMMA VisibleOfNone == VisibleOf(<<>>) = <<>>
<1>1. <<>> \in Seq(Marks) /\ Len(<<>>) = 0
  BY EmptySeq
<1>2. PICK p \in Seq(Seq(VisibleMarks)) :
        VisibleOf(<<>>) = Joined(p) /\ Len(p) = Len(<<>>)
  BY <1>1, VisibleParts, Zenon
<1>3. p = <<>>
  BY <1>1, <1>2, EmptySeq
<1> QED
  BY <1>2, <1>3, JoinedEmpty

LEMMA VisibleOfMark ==
  ASSUME NEW m \in Marks
  PROVE  VisibleOf(<<m>>) = Shown(m)
<1>1. <<m>> \in Seq(Marks) /\ Len(<<m>>) = 1 /\ <<m>>[1] = m
  OBVIOUS
<1>2. PICK p \in Seq(Seq(VisibleMarks)) :
        /\ VisibleOf(<<m>>) = Joined(p) /\ Len(p) = Len(<<m>>)
        /\ \A i \in 1 .. Len(<<m>>) : p[i] = Shown(<<m>>[i])
  BY <1>1, VisibleParts, Zenon
<1>3. Len(p) = 1 /\ p[1] = Shown(m)
  BY <1>1, <1>2
<1>4. <<>> \in Seq(Seq(VisibleMarks)) /\ Len(<<>>) = 0
  BY EmptySeq
<1>5. Joined(p) = Joined(<<>>) \o p[1]
  <2>1. Len(p) = Len(<<>>) + 1 /\ Len(<<>>) + 1 = 1 /\ 1 .. Len(<<>>) = {}
    BY <1>3, <1>4
  <2>2. \A i \in 1 .. Len(<<>>) : <<>>[i] = p[i]
    BY <2>1
  <2>3. Joined(p) = Joined(<<>>) \o p[Len(<<>>) + 1]
    BY <1>4, <2>1, <2>2, JoinedLast, Zenon
  <2> QED
    BY <2>1, <2>3
<1>6. <<>> \o Shown(m) = Shown(m)
  BY ShownType, ConcatEmptySeq
<1> QED
  BY <1>2, <1>3, <1>5, <1>6, JoinedEmpty

-----------------------------------------------------------------------------
(* The text of events and the corrections among them.                      *)

LEMMA EventType ==
  ASSUME NEW e \in Events
  PROVE  /\ TextOf(e) \in Seq(Marks)
         /\ e.text \in Seq(Marks)
         /\ e.key # "paste" => e.text = <<>>
<1>1. \/ \E k \in Keys : e = [key |-> k, text |-> <<>>]
      \/ \E t \in Pastes : e = [key |-> "paste", text |-> t]
  BY DEF Events, Key, Paste
<1>2. e.text \in Seq(Marks) /\ (e.key # "paste" => e.text = <<>>)
  <2>1. CASE \E k \in Keys : e = [key |-> k, text |-> <<>>]
    <3>1. e.text = <<>>
      BY <2>1
    <3> QED
      BY <3>1, EmptySeq
  <2>2. CASE \E t \in Pastes : e = [key |-> "paste", text |-> t]
    <3>1. e.key = "paste" /\ e.text \in Pastes
      BY <2>2
    <3> QED
      BY <3>1, PromptConstants
  <2> QED
    BY <1>1, <2>1, <2>2
<1>3. TextOf(e) \in {<<e.key>>, <<"newline">>, e.text}
      /\ (TextOf(e) = <<e.key>> => e.key \in Marks \/ TextOf(e) \in Seq(Marks))
  <2>1. CASE e.key \in VisibleMarks \cup {"blank", "foreign"}
    BY <2>1 DEF TextOf, Marks, VisibleMarks
  <2>2. CASE e.key = "enter"
    BY <2>2 DEF TextOf, Marks, VisibleMarks
  <2>3. CASE e.key \notin VisibleMarks \cup {"blank", "foreign"} /\ e.key # "enter"
    BY <1>2, <2>3 DEF TextOf
  <2> QED
    BY <2>1, <2>2, <2>3
<1>4. TextOf(e) \in Seq(Marks)
  <2>1. <<"newline">> \in Seq(Marks)
    BY DEF Marks
  <2>2. e.key \in Marks => <<e.key>> \in Seq(Marks)
    OBVIOUS
  <2> QED
    BY <1>2, <1>3, <2>1, <2>2
<1> QED
  BY <1>2, <1>4

LEMMA TypedParts ==
  ASSUME NEW s \in Seq(Events)
  PROVE  \E p \in Seq(Seq(Marks)) :
           /\ Typed(s) = Joined(p) /\ Len(p) = Len(s)
           /\ \A i \in 1 .. Len(s) : p[i] = TextOf(s[i])
<1> DEFINE p == [i \in DOMAIN s |-> TextOf(s[i])]
<1>1. DOMAIN s = 1 .. Len(s) /\ Len(s) \in Nat
  BY LenProperties
<1>2. \A i \in 1 .. Len(s) : p[i] = TextOf(s[i]) /\ TextOf(s[i]) \in Seq(Marks)
  BY <1>1, EventType, ElementOfSeq
<1>3. p \in [1 .. Len(s) -> Seq(Marks)]
  BY <1>1, <1>2
<1>4. p \in Seq(Seq(Marks)) /\ Len(p) = Len(s)
  <2> HIDE DEF p
  <2> QED
    BY <1>1, <1>3
<1> QED
  BY <1>2, <1>4 DEF Typed

LEMMA TypedType ==
  ASSUME NEW s \in Seq(Events)
  PROVE  Typed(s) \in Seq(Marks)
BY TypedParts, JoinedType

LEMMA TypedNone == Typed(<<>>) = <<>>
<1>1. <<>> \in Seq(Events) /\ Len(<<>>) = 0
  BY EmptySeq
<1>2. PICK p \in Seq(Seq(Marks)) : Typed(<<>>) = Joined(p) /\ Len(p) = Len(<<>>)
  BY <1>1, TypedParts
<1>3. p = <<>>
  BY <1>1, <1>2, EmptySeq
<1> QED
  BY <1>2, <1>3, JoinedEmpty

LEMMA TypedAppend ==
  ASSUME NEW s \in Seq(Events), NEW e \in Events
  PROVE  Typed(Append(s, e)) = Typed(s) \o TextOf(e)
<1>1. PICK p \in Seq(Seq(Marks)) :
        /\ Typed(s) = Joined(p) /\ Len(p) = Len(s)
        /\ \A i \in 1 .. Len(s) : p[i] = TextOf(s[i])
  BY TypedParts
<1>2. /\ Append(s, e) \in Seq(Events) /\ Len(Append(s, e)) = Len(s) + 1
      /\ \A i \in 1 .. Len(s) : Append(s, e)[i] = s[i]
      /\ Append(s, e)[Len(s) + 1] = e /\ Len(s) \in Nat
  BY AppendProperties, LenProperties
<1>3. PICK q \in Seq(Seq(Marks)) :
        /\ Typed(Append(s, e)) = Joined(q) /\ Len(q) = Len(Append(s, e))
        /\ \A i \in 1 .. Len(Append(s, e)) : q[i] = TextOf(Append(s, e)[i])
  BY <1>2, TypedParts
<1>4. Len(q) = Len(p) + 1 /\ \A i \in 1 .. Len(p) : p[i] = q[i]
  BY <1>1, <1>2, <1>3
<1>5. q[Len(p) + 1] = TextOf(e)
  BY <1>1, <1>2, <1>3
<1> QED
  BY <1>1, <1>3, <1>4, <1>5, JoinedLast

LEMMA CorrectionsFinite ==
  ASSUME NEW s \in Seq(Events)
  PROVE  /\ IsFiniteSet({i \in DOMAIN s : s[i].key = "backspace"})
         /\ Corrections(s) \in Nat
<1>1. DOMAIN s = 1 .. Len(s) /\ Len(s) \in Nat
  BY LenProperties
<1>2. IsFiniteSet(DOMAIN s)
  BY <1>1, FS_Interval
<1>3. IsFiniteSet({i \in DOMAIN s : s[i].key = "backspace"})
  BY <1>2, FS_Subset
<1> QED
  BY <1>3, FS_CardinalityType DEF Corrections

LEMMA CorrectionsAppend ==
  ASSUME NEW s \in Seq(Events), NEW e \in Events
  PROVE  Corrections(Append(s, e)) =
           IF e.key = "backspace" THEN Corrections(s) + 1 ELSE Corrections(s)
<1> DEFINE C(t) == {i \in DOMAIN t : t[i].key = "backspace"}
<1>1. /\ Append(s, e) \in Seq(Events) /\ Len(Append(s, e)) = Len(s) + 1
      /\ \A i \in 1 .. Len(s) : Append(s, e)[i] = s[i]
      /\ Append(s, e)[Len(s) + 1] = e /\ Len(s) \in Nat
      /\ DOMAIN s = 1 .. Len(s)
      /\ DOMAIN Append(s, e) = 1 .. Len(s) + 1
  BY AppendProperties, LenProperties
<1>2. 1 .. Len(s) + 1 = (1 .. Len(s)) \cup {Len(s) + 1}
  BY <1>1
<1>3. C(Append(s, e)) = IF e.key = "backspace" THEN C(s) \cup {Len(s) + 1} ELSE C(s)
  BY <1>1, <1>2
<1>4. Len(s) + 1 \notin C(s)
  BY <1>1
<1>5. IsFiniteSet(C(s))
  BY CorrectionsFinite
<1> HIDE DEF C
<1>6. Cardinality(C(s) \cup {Len(s) + 1}) = Cardinality(C(s)) + 1
  BY <1>4, <1>5, FS_AddElement
<1>7. Corrections(s) = Cardinality(C(s))
      /\ Corrections(Append(s, e)) = Cardinality(C(Append(s, e)))
  BY DEF C, Corrections
<1> QED
  BY <1>3, <1>6, <1>7

LEMMA CorrectionsNone == Corrections(<<>>) = 0
<1>1. {i \in DOMAIN <<>> : <<>>[i].key = "backspace"} = {}
  <2>1. DOMAIN <<>> = 1 .. 0
    BY EmptySeq, LenProperties
  <2> QED
    BY <2>1
<1> QED
  BY <1>1, FS_EmptySet DEF Corrections

-----------------------------------------------------------------------------
(* Nothing foreign in a text; no blank behind the last visible character of*)
(* its last line; no visible character on its last line.                   *)
NoForeign(text) == "foreign" \notin {text[i] : i \in DOMAIN text}

NoOpenGap(text) ==
  \A i, k \in DOMAIN text :
    i < k /\ text[i] \in VisibleMarks /\ text[k] = "blank" =>
      \E n \in i .. Len(text) : text[n] = "newline"

LineStart(text) ==
  \A i \in DOMAIN text :
    text[i] \in VisibleMarks => \E n \in i .. Len(text) : text[n] = "newline"

LEMMA LineStartHasNoGap ==
  ASSUME NEW text, LineStart(text)
  PROVE  NoOpenGap(text)
BY DEF LineStart, NoOpenGap

LEMMA NoneIsLineStart == LineStart(<<>>) /\ NoInnerBlank(<<>>) /\ NoForeign(<<>>)
<1>1. DOMAIN <<>> = {}
  <2>1. DOMAIN <<>> = 1 .. 0
    BY EmptySeq, LenProperties
  <2> QED
    BY <2>1
<1> QED
  BY <1>1 DEF LineStart, NoInnerBlank, NoForeign

LEMMA MarkFacts ==
  ASSUME NEW s \in Seq(Marks), NEW m \in Marks
  PROVE  /\ s \o <<m>> \in Seq(Marks) /\ Len(s) \in Nat
         /\ DOMAIN s = 1 .. Len(s) /\ DOMAIN (s \o <<m>>) = 1 .. Len(s) + 1
         /\ Len(s \o <<m>>) = Len(s) + 1
         /\ \A i \in 1 .. Len(s) : (s \o <<m>>)[i] = s[i]
         /\ (s \o <<m>>)[Len(s) + 1] = m
<1>1. Append(s, m) = s \o <<m>>
  BY AppendIsConcat
<1> QED
  BY <1>1, AppendProperties, LenProperties

(* One more mark.                                                          *)
LEMMA MarkKeepsInner ==
  ASSUME NEW s \in Seq(Marks), NEW m \in Marks, NoInnerBlank(s),
         m \in VisibleMarks => NoOpenGap(s)
  PROVE  NoInnerBlank(s \o <<m>>)
<1> DEFINE t == s \o <<m>>
           l == Len(s)
<1>1. /\ l \in Nat /\ DOMAIN s = 1 .. l /\ DOMAIN t = 1 .. l + 1
      /\ \A i \in 1 .. l : t[i] = s[i]
      /\ t[l + 1] = m
  BY MarkFacts
<1> HIDE DEF t
<1>2. SUFFICES ASSUME NEW i \in 1 .. l + 1, NEW j \in 1 .. l + 1,
                      NEW k \in 1 .. l + 1, i < k, k < j,
                      t[i] \in VisibleMarks, t[j] \in VisibleMarks, t[k] = "blank"
               PROVE  \E n \in i .. j : t[n] = "newline"
  BY <1>1 DEF NoInnerBlank, t
<1>3. i \in 1 .. l /\ k \in 1 .. l /\ s[i] \in VisibleMarks /\ s[k] = "blank"
  BY <1>1, <1>2
<1>4. CASE j \in 1 .. l
  <2>1. s[j] \in VisibleMarks
    BY <1>1, <1>2, <1>4
  <2>2. PICK n \in i .. j : s[n] = "newline"
    BY <1>1, <1>2, <1>3, <1>4, <2>1 DEF NoInnerBlank
  <2>3. n \in 1 .. l
    BY <1>1, <1>4
  <2> QED
    BY <1>1, <2>2, <2>3
<1>5. CASE j = l + 1
  <2>1. m \in VisibleMarks
    BY <1>1, <1>2, <1>5
  <2>2. PICK n \in i .. l : s[n] = "newline"
    BY <1>1, <1>2, <1>3, <2>1 DEF NoOpenGap
  <2>3. n \in 1 .. l /\ n \in i .. j
    BY <1>1, <1>5
  <2> QED
    BY <1>1, <2>2, <2>3
<1> QED
  BY <1>1, <1>4, <1>5

LEMMA MarkKeepsGap ==
  ASSUME NEW s \in Seq(Marks), NEW m \in Marks, NoOpenGap(s), m # "blank"
  PROVE  NoOpenGap(s \o <<m>>)
<1> DEFINE t == s \o <<m>>
           l == Len(s)
<1>1. /\ l \in Nat /\ DOMAIN s = 1 .. l /\ DOMAIN t = 1 .. l + 1
      /\ \A i \in 1 .. l : t[i] = s[i]
      /\ t[l + 1] = m /\ Len(t) = l + 1
  BY MarkFacts
<1> HIDE DEF t
<1>2. SUFFICES ASSUME NEW i \in 1 .. l + 1, NEW k \in 1 .. l + 1, i < k,
                      t[i] \in VisibleMarks, t[k] = "blank"
               PROVE  \E n \in i .. l + 1 : t[n] = "newline"
  BY <1>1 DEF NoOpenGap, t
<1>3. i \in 1 .. l /\ k \in 1 .. l /\ s[i] \in VisibleMarks /\ s[k] = "blank"
  BY <1>1, <1>2
<1>4. PICK n \in i .. l : s[n] = "newline"
  BY <1>1, <1>2, <1>3 DEF NoOpenGap
<1>5. n \in 1 .. l /\ n \in i .. l + 1
  BY <1>1
<1> QED
  BY <1>1, <1>4, <1>5

LEMMA MarkKeepsLineStart ==
  ASSUME NEW s \in Seq(Marks), NEW m \in Marks, m \notin VisibleMarks,
         LineStart(s) \/ m = "newline"
  PROVE  LineStart(s \o <<m>>)
<1> DEFINE t == s \o <<m>>
           l == Len(s)
<1>1. /\ l \in Nat /\ DOMAIN s = 1 .. l /\ DOMAIN t = 1 .. l + 1
      /\ \A i \in 1 .. l : t[i] = s[i]
      /\ t[l + 1] = m /\ Len(t) = l + 1
  BY MarkFacts
<1> HIDE DEF t
<1>2. SUFFICES ASSUME NEW i \in 1 .. l + 1, t[i] \in VisibleMarks
               PROVE  \E n \in i .. l + 1 : t[n] = "newline"
  BY <1>1 DEF LineStart, t
<1>3. CASE m = "newline"
  BY <1>1, <1>3
<1>4. CASE LineStart(s)
  <2>1. i \in 1 .. l /\ s[i] \in VisibleMarks
    BY <1>1, <1>2
  <2>2. PICK n \in i .. l : s[n] = "newline"
    BY <1>1, <1>4, <2>1 DEF LineStart
  <2>3. n \in 1 .. l /\ n \in i .. l + 1
    BY <1>1
  <2> QED
    BY <1>1, <2>2, <2>3
<1> QED
  BY <1>3, <1>4

LEMMA MarkKeepsForeign ==
  ASSUME NEW s \in Seq(Marks), NEW m \in Marks, NoForeign(s), m # "foreign"
  PROVE  NoForeign(s \o <<m>>)
<1> DEFINE t == s \o <<m>>
           l == Len(s)
<1>1. /\ l \in Nat /\ DOMAIN s = 1 .. l /\ DOMAIN t = 1 .. l + 1
      /\ \A i \in 1 .. l : t[i] = s[i]
      /\ t[l + 1] = m
  BY MarkFacts
<1> HIDE DEF t
<1>2. ASSUME NEW i \in 1 .. l + 1 PROVE t[i] # "foreign"
  BY <1>1 DEF NoForeign
<1> QED
  BY <1>1, <1>2 DEF NoForeign, t

(* A whole text after the start of a line.                                 *)
LEMMA TextKeepsInner ==
  ASSUME NEW s \in Seq(Marks), NEW u \in Seq(Marks), LineStart(s),
         NoInnerBlank(s), NoInnerBlank(u), NoForeign(s), NoForeign(u)
  PROVE  NoInnerBlank(s \o u) /\ NoForeign(s \o u)
<1> DEFINE t == s \o u
           l == Len(s)
           r == Len(u)
<1>1. /\ l \in Nat /\ r \in Nat
      /\ DOMAIN s = 1 .. l /\ DOMAIN u = 1 .. r /\ DOMAIN t = 1 .. l + r
      /\ \A i \in 1 .. l : t[i] = s[i]
      /\ \A i \in l + 1 .. l + r : t[i] = u[i - l] /\ i - l \in 1 .. r
  <2>1. t \in Seq(Marks) /\ Len(t) = l + r
    BY ConcatProperties
  <2>2. l \in Nat /\ r \in Nat
    BY LenProperties
  <2>3. DOMAIN s = 1 .. l /\ DOMAIN u = 1 .. r /\ DOMAIN t = 1 .. l + r
    BY <2>1, LenProperties
  <2>4. \A i \in 1 .. l + r : t[i] = IF i <= l THEN s[i] ELSE u[i - l]
    BY ConcatProperties
  <2> HIDE DEF t, l, r
  <2>5. \A i \in 1 .. l : t[i] = s[i]
    BY <2>2, <2>4
  <2>6. \A i \in l + 1 .. l + r : t[i] = u[i - l] /\ i - l \in 1 .. r
    BY <2>2, <2>4
  <2> QED
    BY <2>2, <2>3, <2>5, <2>6
<1> HIDE DEF t, l, r
<1>2. NoInnerBlank(t)
  <2>1. SUFFICES ASSUME NEW i \in 1 .. l + r, NEW j \in 1 .. l + r,
                        NEW k \in 1 .. l + r, i < k, k < j,
                        t[i] \in VisibleMarks, t[j] \in VisibleMarks,
                        t[k] = "blank"
                 PROVE  \E n \in i .. j : t[n] = "newline"
    BY <1>1 DEF NoInnerBlank
  <2>2. CASE j <= l
    <3>1. /\ i \in 1 .. l /\ j \in 1 .. l /\ k \in 1 .. l
          /\ s[i] \in VisibleMarks /\ s[j] \in VisibleMarks /\ s[k] = "blank"
      BY <1>1, <2>1, <2>2
    <3>2. PICK n \in i .. j : s[n] = "newline"
      BY <1>1, <2>1, <3>1 DEF NoInnerBlank
    <3> QED
      BY <1>1, <3>1, <3>2
  <2>3. CASE i <= l /\ j > l
    <3>1. i \in 1 .. l /\ s[i] \in VisibleMarks
      BY <1>1, <2>1, <2>3
    <3>2. PICK n \in i .. l : s[n] = "newline"
      BY <1>1, <3>1 DEF LineStart, l
    <3>3. n \in 1 .. l /\ n \in i .. j
      BY <1>1, <2>3, <3>1
    <3> QED
      BY <1>1, <3>2, <3>3
  <2>4. CASE i > l
    <3> DEFINE x == i - l
               y == j - l
               z == k - l
    <3>1. /\ i \in l + 1 .. l + r /\ j \in l + 1 .. l + r /\ k \in l + 1 .. l + r
      BY <1>1, <2>1, <2>4
    <3>2. /\ x \in 1 .. r /\ y \in 1 .. r /\ z \in 1 .. r /\ x < z /\ z < y
          /\ u[x] \in VisibleMarks /\ u[y] \in VisibleMarks /\ u[z] = "blank"
      BY <1>1, <2>1, <3>1
    <3> HIDE DEF x, y, z
    <3>3. PICK n \in x .. y : u[n] = "newline"
      BY <1>1, <3>2 DEF NoInnerBlank
    <3>4. n + l \in i .. j /\ n + l \in l + 1 .. l + r /\ (n + l) - l = n
      BY <1>1, <3>1, <3>2 DEF x, y
    <3> QED
      BY <1>1, <3>3, <3>4
  <2> QED
    BY <1>1, <2>2, <2>3, <2>4
<1>3. NoForeign(t)
  <2>1. ASSUME NEW i \in 1 .. l + r PROVE t[i] # "foreign"
    <3>1. CASE i \in 1 .. l
      BY <1>1, <3>1 DEF NoForeign
    <3>2. CASE i \in l + 1 .. l + r
      BY <1>1, <3>2 DEF NoForeign
    <3> QED
      BY <1>1, <3>1, <3>2
  <2> QED
    BY <1>1, <2>1 DEF NoForeign
<1> QED
  BY <1>2, <1>3 DEF t

(* What a paste that is accepted holds.                                    *)
LEMMA PasteFacts ==
  ASSUME NEW text \in Seq(Marks), PasteAccepted(text)
  PROVE  NoInnerBlank(text) /\ NoForeign(text) /\ TokenValid(VisibleOf(text))
<1>1. NoForeign(text)
  BY DEF PasteAccepted, NoForeign
<1>2. CASE PasteContent(text) = text
  BY <1>1, <1>2 DEF PasteAccepted
<1>3. CASE PasteContent(text) # text
  <2>1. text # <<>> /\ Last(text) = "newline" /\ PasteContent(text) = Front(text)
    BY <1>3 DEF PasteContent
  <2>2. PICK s \in Seq(Marks), m \in Marks : text = Append(s, m)
    BY <2>1, SequenceEmptyOrAppend
  <2>3. Len(text) = Len(s) + 1 /\ text[Len(text)] = m /\ Len(s) \in Nat
        /\ \A i \in 1 .. Len(s) : text[i] = s[i]
    BY <2>2, AppendProperties, LenProperties
  <2>4. m = "newline"
    BY <2>1, <2>3 DEF Last
  <2>5. Front(text) = s
    <3>1. Front(text) = SubSeq(text, 1, Len(s))
      BY <2>3 DEF Front
    <3>2. /\ Front(text) \in Seq(Marks) /\ Len(Front(text)) = Len(s)
          /\ \A i \in 1 .. Len(s) : Front(text)[i] = text[i]
      <4>1. 1 \in Int /\ Len(s) \in Int /\ \A i \in 1 .. Len(s) : text[i] \in Marks
        BY <2>3, ElementOfSeq
      <4> QED
        BY <2>3, <3>1, <4>1, SubSeqProperties
    <3> QED
      BY <2>3, <3>2, SeqEqual
  <2>6. text = s \o <<m>>
    BY <2>2, AppendIsConcat
  <2>7. NoInnerBlank(s) /\ TokenValid(VisibleOf(s))
    BY <2>1, <2>5 DEF PasteAccepted
  <2>8. m \notin VisibleMarks
    BY <2>4 DEF VisibleMarks
  <2>9. VisibleOf(text) = VisibleOf(s)
    <3>1. VisibleOf(<<m>>) = <<>>
      BY <2>8, VisibleOfMark DEF Shown
    <3>2. <<m>> \in Seq(Marks)
      OBVIOUS
    <3>3. VisibleOf(text) = VisibleOf(s) \o <<>>
      BY <2>6, <3>1, <3>2, VisibleConcat
    <3>4. VisibleOf(s) \in Seq(VisibleMarks)
      BY VisibleType
    <3> QED
      BY <3>3, <3>4, ConcatEmptySeq
  <2> QED
    BY <1>1, <2>6, <2>7, <2>8, <2>9, MarkKeepsInner
<1> QED
  BY <1>2, <1>3

-----------------------------------------------------------------------------
(* What ClaudeSetupTokenInput keeps of the events it was given.            *)

Inputs == [value : Seq(VisibleMarks),
           state : {"Initial", "Content", "TrailingWhitespace",
                    "ContinuationStart", "BracketedPaste"},
           rejected : BOOLEAN]

(* Unless something was rejected, the value is what was entered.           *)
Entered(events, i) ==
  LET text == Typed(events) IN
  ~i.rejected =>
    /\ Len(VisibleOf(text)) <= Len(i.value) + Corrections(events)
    /\ Corrections(events) = 0 =>
         i.value = VisibleOf(text) /\ NoInnerBlank(text) /\ NoForeign(text)

(* And the state tells what may still be entered.                          *)
Placed(events, i) ==
  LET text == Typed(events) IN
  ~i.rejected /\ Corrections(events) = 0 =>
    /\ i.state = "Content" => NoOpenGap(text)
    /\ i.state \in {"Initial", "ContinuationStart"} => LineStart(text)

LEMMA RejectedHolds ==
  ASSUME NEW events, NEW i, i.rejected
  PROVE  Entered(events, i) /\ Placed(events, i)
BY DEF Entered, Placed

LEMMA NothingEntered ==
  EmptyInput \in Inputs /\ Entered(<<>>, EmptyInput) /\ Placed(<<>>, EmptyInput)
<1>1. EmptyInput \in Inputs
  BY DEF EmptyInput, Inputs
<1>2. /\ VisibleOf(Typed(<<>>)) = <<>> /\ Typed(<<>>) = <<>>
      /\ Len(<<>>) = 0 /\ Corrections(<<>>) = 0
  BY TypedNone, VisibleOfNone, CorrectionsNone
<1>3. EmptyInput.value = <<>> /\ EmptyInput.state = "Initial"
  BY DEF EmptyInput
<1>4. Entered(<<>>, EmptyInput)
  BY <1>2, <1>3, NoneIsLineStart DEF Entered
<1>5. Placed(<<>>, EmptyInput)
  BY <1>2, <1>3, NoneIsLineStart DEF Placed
<1> QED
  BY <1>1, <1>4, <1>5

(* An event that enters one mark, no correction.                           *)
MarkEntered(events, e, m) ==
  /\ Typed(Append(events, e)) = Typed(events) \o <<m>>
  /\ VisibleOf(Typed(Append(events, e))) = VisibleOf(Typed(events)) \o Shown(m)
  /\ Corrections(Append(events, e)) = Corrections(events)
  /\ Typed(events) \in Seq(Marks)
  /\ VisibleOf(Typed(events)) \in Seq(VisibleMarks)
  /\ Corrections(events) \in Nat

LEMMA OneMark ==
  ASSUME NEW events \in Seq(Events), NEW e \in Events, NEW m \in Marks,
         TextOf(e) = <<m>>, e.key # "backspace"
  PROVE  MarkEntered(events, e, m)
<1>1. Typed(events) \in Seq(Marks) /\ <<m>> \in Seq(Marks)
  BY TypedType
<1>2. Typed(Append(events, e)) = Typed(events) \o <<m>>
  BY TypedAppend
<1>3. VisibleOf(Typed(Append(events, e))) = VisibleOf(Typed(events)) \o Shown(m)
  BY <1>1, <1>2, VisibleConcat, VisibleOfMark
<1>4. VisibleOf(Typed(events)) \in Seq(VisibleMarks)
  BY <1>1, VisibleType
<1>5. /\ Corrections(Append(events, e)) = Corrections(events)
      /\ Corrections(events) \in Nat
  BY CorrectionsAppend, CorrectionsFinite
<1> QED
  BY <1>1, <1>2, <1>3, <1>4, <1>5 DEF MarkEntered

LEMMA VisibleEntered ==
  ASSUME NEW events \in Seq(Events), NEW e \in Events, NEW i \in Inputs,
         Entered(events, i), Placed(events, i), e.key \in VisibleMarks
  PROVE  LET next == PushCharacter(i, e.key) IN
         /\ next \in Inputs
         /\ Entered(Append(events, e), next) /\ Placed(Append(events, e), next)
<1> DEFINE c == e.key
           next == PushCharacter(i, c)
           text == Typed(events)
<1>1. c \in Marks /\ c # "backspace" /\ c # "foreign" /\ c # "blank"
  BY DEF Marks, VisibleMarks
<1>2. MarkEntered(events, e, c) /\ Shown(c) = <<c>>
  <2>1. TextOf(e) = <<c>>
    BY DEF TextOf, VisibleMarks
  <2> QED
    BY <1>1, <2>1, OneMark DEF Shown
<1>3. CASE \/ i.state \in {"TrailingWhitespace", "BracketedPaste"}
           \/ Len(i.value) >= MaxSecretBytes
  <2>1. next = Rejected(i)
    BY <1>3 DEF PushCharacter
  <2>2. next \in Inputs /\ next.rejected
    BY <2>1 DEF Rejected, Inputs
  <2> QED
    BY <2>2, RejectedHolds
<1>4. CASE ~ (\/ i.state \in {"TrailingWhitespace", "BracketedPaste"}
              \/ Len(i.value) >= MaxSecretBytes)
  <2>1. next = [i EXCEPT !.value = Append(@, c), !.state = "Content"]
    BY <1>1, <1>4 DEF PushCharacter
  <2>2. Append(i.value, c) \in Seq(VisibleMarks) /\ i.value \in Seq(VisibleMarks)
        /\ Len(Append(i.value, c)) = Len(i.value) + 1
        /\ Append(i.value, c) = i.value \o <<c>> /\ Len(i.value) \in Nat
    BY AppendProperties, AppendIsConcat, LenProperties DEF Inputs
  <2>3. /\ next \in Inputs /\ next.rejected = i.rejected
        /\ next.value = i.value \o <<c>> /\ Len(next.value) = Len(i.value) + 1
        /\ next.state = "Content"
    BY <2>1, <2>2 DEF Inputs
  <2>4. CASE i.rejected
    BY <2>3, <2>4, RejectedHolds
  <2>5. CASE ~i.rejected
    <3>1. Len(VisibleOf(text) \o <<c>>) = Len(VisibleOf(text)) + 1
          /\ Len(VisibleOf(text)) \in Nat
      BY <1>2, AppendProperties, AppendIsConcat, LenProperties DEF MarkEntered
    <3>2. Len(VisibleOf(Typed(Append(events, e))))
            <= Len(next.value) + Corrections(Append(events, e))
      BY <1>2, <2>2, <2>3, <2>5, <3>1 DEF MarkEntered, Entered
    <3>3. ASSUME Corrections(Append(events, e)) = 0
          PROVE  /\ next.value = VisibleOf(Typed(Append(events, e)))
                 /\ NoInnerBlank(Typed(Append(events, e)))
                 /\ NoForeign(Typed(Append(events, e)))
                 /\ NoOpenGap(Typed(Append(events, e)))
      <4>1. /\ i.value = VisibleOf(text) /\ NoInnerBlank(text) /\ NoForeign(text)
        BY <1>2, <2>5, <3>3 DEF MarkEntered, Entered
      <4>2. NoOpenGap(text)
        <5>1. i.state \in {"Initial", "ContinuationStart", "Content"}
          BY <1>4 DEF Inputs
        <5> QED
          BY <1>2, <2>5, <3>3, <5>1, LineStartHasNoGap DEF MarkEntered, Placed
      <4>3. text \in Seq(Marks) /\ Typed(Append(events, e)) = text \o <<c>>
        BY <1>2 DEF MarkEntered
      <4>4. /\ NoInnerBlank(text \o <<c>>) /\ NoForeign(text \o <<c>>)
            /\ NoOpenGap(text \o <<c>>)
        BY <1>1, <4>1, <4>2, <4>3, MarkKeepsInner, MarkKeepsForeign, MarkKeepsGap
      <4> QED
        BY <1>2, <2>3, <4>1, <4>3, <4>4 DEF MarkEntered
    <3> QED
      BY <2>3, <3>2, <3>3 DEF Entered, Placed
  <2> QED
    BY <2>4, <2>5
<1> QED
  BY <1>3, <1>4

LEMMA BlankEntered ==
  ASSUME NEW events \in Seq(Events), NEW e \in Events, NEW i \in Inputs,
         Entered(events, i), Placed(events, i), e.key = "blank"
  PROVE  LET next == PushBlank(i) IN
         /\ next \in Inputs
         /\ Entered(Append(events, e), next) /\ Placed(Append(events, e), next)
<1> DEFINE next == PushBlank(i)
           text == Typed(events)
           m == "blank"
<1>1. m \in Marks /\ m \notin VisibleMarks
  BY DEF Marks, VisibleMarks
<1>2. MarkEntered(events, e, m) /\ Shown(m) = <<>>
  <2>1. TextOf(e) = <<m>>
    BY DEF TextOf
  <2>2. e.key # "backspace"
    OBVIOUS
  <2> QED
    BY <1>1, <2>1, <2>2, OneMark DEF Shown
<1>3. CASE i.state = "BracketedPaste"
  <2>1. next = Rejected(i)
    BY <1>3 DEF PushBlank
  <2>2. next \in Inputs /\ next.rejected
    BY <2>1 DEF Rejected, Inputs
  <2> QED
    BY <2>2, RejectedHolds
<1>4. CASE i.state # "BracketedPaste"
  <2>1. /\ next \in Inputs /\ next.rejected = i.rejected /\ next.value = i.value
        /\ \/ next.state = "TrailingWhitespace"
           \/ /\ next.state = i.state
              /\ i.state \in {"Initial", "ContinuationStart"}
    <3>1. CASE i.state \in {"Initial", "ContinuationStart"}
      BY <3>1 DEF PushBlank
    <3>2. CASE i.state \in {"Content", "TrailingWhitespace"}
      <4>1. next = [i EXCEPT !.state = "TrailingWhitespace"]
        BY <3>2 DEF PushBlank
      <4> QED
        BY <4>1 DEF Inputs
    <3> QED
      BY <1>4, <3>1, <3>2 DEF Inputs
  <2>2. VisibleOf(Typed(Append(events, e))) = VisibleOf(text)
        /\ text \in Seq(Marks) /\ Typed(Append(events, e)) = text \o <<m>>
        /\ Corrections(Append(events, e)) = Corrections(events)
    BY <1>2, ConcatEmptySeq DEF MarkEntered
  <2> HIDE DEF next, m
  <2>3. Entered(Append(events, e), next)
    <3>1. m # "foreign"
      BY DEF m
    <3> QED
      BY <1>1, <2>1, <2>2, <3>1, MarkKeepsInner, MarkKeepsForeign DEF Entered
  <2>4. Placed(Append(events, e), next)
    BY <1>1, <2>1, <2>2, MarkKeepsLineStart DEF Placed
  <2> QED
    BY <2>1, <2>3, <2>4 DEF next
<1> QED
  BY <1>3, <1>4

(* A line break, whether it continues the token or submits it.             *)
LEMMA BreakEntered ==
  ASSUME NEW events \in Seq(Events), NEW e \in Events, NEW i \in Inputs,
         Entered(events, i), e.key = "enter", NEW next \in Inputs,
         next.value = i.value, next.rejected = i.rejected,
         next.state # "Content"
  PROVE  Entered(Append(events, e), next) /\ Placed(Append(events, e), next)
<1> DEFINE text == Typed(events)
           m == "newline"
<1>1. m \in Marks /\ m \notin VisibleMarks /\ m # "foreign"
  BY DEF Marks, VisibleMarks
<1>2. MarkEntered(events, e, m) /\ Shown(m) = <<>>
  <2>1. TextOf(e) = <<m>>
    BY DEF TextOf, VisibleMarks
  <2>2. e.key # "backspace"
    OBVIOUS
  <2> QED
    BY <1>1, <2>1, <2>2, OneMark DEF Shown
<1>3. VisibleOf(Typed(Append(events, e))) = VisibleOf(text)
      /\ text \in Seq(Marks) /\ Typed(Append(events, e)) = text \o <<m>>
      /\ Corrections(Append(events, e)) = Corrections(events)
  BY <1>2, ConcatEmptySeq DEF MarkEntered
<1>4. LineStart(text \o <<m>>)
  BY <1>1, <1>3, MarkKeepsLineStart
<1> HIDE DEF m
<1>5. Entered(Append(events, e), next)
  BY <1>1, <1>3, MarkKeepsInner, MarkKeepsForeign DEF Entered
<1>6. Placed(Append(events, e), next)
  BY <1>3, <1>4 DEF Placed
<1> QED
  BY <1>5, <1>6

LEMMA Corrected ==
  ASSUME NEW events \in Seq(Events), NEW e \in Events, NEW i \in Inputs,
         Entered(events, i), e.key = "backspace"
  PROVE  LET next == Backspace(i) IN
         /\ next \in Inputs
         /\ Entered(Append(events, e), next) /\ Placed(Append(events, e), next)
<1> DEFINE next == Backspace(i)
           kept == IF i.value = <<>> THEN <<>> ELSE Front(i.value)
           text == Typed(events)
<1>1. i.value \in Seq(VisibleMarks) /\ Len(i.value) \in Nat
  BY LenProperties DEF Inputs
<1>2. /\ kept \in Seq(VisibleMarks) /\ Len(kept) \in Nat
      /\ Len(kept) >= Len(i.value) - 1
  <2>1. CASE i.value = <<>>
    BY <1>1, <2>1, EmptySeq
  <2>2. CASE i.value # <<>>
    <3>1. Len(i.value) \in Nat \ {0}
      BY <1>1, <2>2, EmptySeq
    <3>2. 1 \in Int /\ Len(i.value) - 1 \in Int
          /\ \A k \in 1 .. Len(i.value) - 1 : i.value[k] \in VisibleMarks
      BY <1>1, <3>1, ElementOfSeq
    <3>3. /\ Front(i.value) \in Seq(VisibleMarks)
          /\ Len(Front(i.value)) = Len(i.value) - 1
      BY <3>1, <3>2, SubSeqProperties DEF Front
    <3> QED
      BY <2>2, <3>1, <3>3
  <2> QED
    BY <2>1, <2>2
<1> HIDE DEF kept
<1>3. /\ next \in Inputs /\ next.rejected = i.rejected
      /\ next.value \in {i.value, kept}
  <2>1. CASE i.state = "TrailingWhitespace"
    BY <2>1 DEF Backspace, Inputs
  <2>2. CASE i.state = "ContinuationStart"
    BY <2>2 DEF Backspace, Inputs, FromValue
  <2>3. CASE i.state = "Initial"
    BY <2>3 DEF Backspace
  <2>4. CASE i.state \in {"Content", "BracketedPaste"}
    <3>1. next = [i EXCEPT !.value = kept, !.state = FromValue(kept)]
      BY <2>4 DEF Backspace, kept
    <3>2. FromValue(kept) \in {"Initial", "Content"}
      BY DEF FromValue
    <3> QED
      BY <1>2, <3>1, <3>2 DEF Inputs
  <2> QED
    BY <2>1, <2>2, <2>3, <2>4 DEF Inputs
<1> HIDE DEF next
<1>4. Len(next.value) >= Len(i.value) - 1 /\ Len(next.value) \in Nat
  BY <1>1, <1>2, <1>3
<1>5. TextOf(e) = <<>>
  BY EventType DEF TextOf, VisibleMarks
<1>6. Typed(Append(events, e)) = text /\ text \in Seq(Marks)
  BY <1>5, TypedAppend, TypedType, ConcatEmptySeq
<1>7. Len(VisibleOf(text)) \in Nat
  BY <1>6, VisibleType, LenProperties
<1>8. Corrections(Append(events, e)) = Corrections(events) + 1
      /\ Corrections(events) \in Nat
  BY CorrectionsAppend, CorrectionsFinite
<1>9. Corrections(Append(events, e)) # 0
  BY <1>8
<1>10. ~i.rejected =>
         Len(VisibleOf(text)) <= Len(next.value) + Corrections(Append(events, e))
  BY <1>1, <1>4, <1>7, <1>8 DEF Entered
<1> QED
  BY <1>3, <1>6, <1>9, <1>10 DEF Entered, Placed, next

LEMMA Pasted ==
  ASSUME NEW events \in Seq(Events), NEW e \in Events, NEW i \in Inputs,
         Entered(events, i), Placed(events, i), e.key = "paste"
  PROVE  LET next == PushPaste(i, e.text) IN
         /\ next \in Inputs
         /\ Entered(Append(events, e), next) /\ Placed(Append(events, e), next)
<1> DEFINE next == PushPaste(i, e.text)
           text == Typed(events)
           u == e.text
<1>1. u \in Seq(Marks) /\ text \in Seq(Marks)
  BY EventType, TypedType
<1>2. VisibleOf(u) \in Seq(VisibleMarks) /\ VisibleOf(text) \in Seq(VisibleMarks)
  BY <1>1, VisibleType
<1>3. CASE ~ (i.value = <<>> /\ i.state = "Initial" /\ PasteAccepted(u))
  <2>1. next = Rejected([i EXCEPT !.state = "BracketedPaste"])
    BY <1>3 DEF PushPaste
  <2>2. next \in Inputs /\ next.rejected
    BY <2>1 DEF Rejected, Inputs
  <2> QED
    BY <2>2, RejectedHolds
<1>4. CASE i.value = <<>> /\ i.state = "Initial" /\ PasteAccepted(u)
  <2>1. next = [[i EXCEPT !.state = "BracketedPaste"] EXCEPT !.value = VisibleOf(u)]
    BY <1>4 DEF PushPaste
  <2>2. /\ next \in Inputs /\ next.rejected = i.rejected
        /\ next.value = VisibleOf(u) /\ next.state = "BracketedPaste"
    BY <1>2, <2>1 DEF Inputs
  <2>3. TextOf(e) = u /\ e.key # "backspace"
    BY DEF TextOf, VisibleMarks
  <2>4. /\ Typed(Append(events, e)) = text \o u
        /\ Corrections(Append(events, e)) = Corrections(events)
        /\ Corrections(events) \in Nat
    BY <2>3, TypedAppend, CorrectionsAppend, CorrectionsFinite
  <2>5. /\ VisibleOf(text \o u) = VisibleOf(text) \o VisibleOf(u)
        /\ Len(VisibleOf(text \o u)) = Len(VisibleOf(text)) + Len(VisibleOf(u))
        /\ Len(VisibleOf(text)) \in Nat /\ Len(VisibleOf(u)) \in Nat
    BY <1>1, <1>2, VisibleConcat, ConcatProperties, LenProperties
  <2>6. NoInnerBlank(u) /\ NoForeign(u)
    BY <1>1, <1>4, PasteFacts
  <2> HIDE DEF next, u
  <2>7. Placed(Append(events, e), next)
    BY <2>2 DEF Placed
  <2>8. CASE i.rejected
    BY <2>2, <2>7, <2>8, RejectedHolds DEF next, u
  <2>9. CASE ~i.rejected
    <3>1. Len(i.value) = 0
      BY <1>4, EmptySeq
    <3>2. Len(VisibleOf(text \o u)) <= Len(next.value) + Corrections(events)
      BY <2>2, <2>4, <2>5, <2>9, <3>1 DEF Entered
    <3>3. ASSUME Corrections(events) = 0
          PROVE  /\ next.value = VisibleOf(text \o u)
                 /\ NoInnerBlank(text \o u) /\ NoForeign(text \o u)
      <4>1. VisibleOf(text) = <<>> /\ NoInnerBlank(text) /\ NoForeign(text)
        BY <1>4, <2>9, <3>3 DEF Entered
      <4>2. LineStart(text)
        BY <1>4, <2>9, <3>3 DEF Placed
      <4>3. next.value = VisibleOf(text \o u)
        BY <1>2, <2>2, <2>5, <4>1, ConcatEmptySeq
      <4> QED
        BY <1>1, <2>6, <4>1, <4>2, <4>3, TextKeepsInner
    <3>4. Entered(Append(events, e), next)
      BY <2>4, <3>2, <3>3 DEF Entered
    <3> QED
      BY <2>2, <2>7, <3>4 DEF next, u
  <2> QED
    BY <2>8, <2>9
<1> QED
  BY <1>3, <1>4

(* An event that enters nothing.                                           *)
LEMMA NothingMore ==
  ASSUME NEW events \in Seq(Events), NEW e \in Events, NEW i,
         TextOf(e) = <<>>, e.key # "backspace"
  PROVE  /\ Entered(events, i) => Entered(Append(events, e), i)
         /\ Placed(events, i) => Placed(Append(events, e), i)
<1>1. Typed(Append(events, e)) = Typed(events)
      /\ Corrections(Append(events, e)) = Corrections(events)
  BY TypedAppend, TypedType, ConcatEmptySeq, CorrectionsAppend
<1> QED
  BY <1>1 DEF Entered, Placed

(* Every event that is read keeps the input in step with what was entered. *)
LEMMA EditedKeeps ==
  ASSUME NEW events \in Seq(Events), NEW e \in Events, NEW i \in Inputs,
         Entered(events, i), Placed(events, i)
  PROVE  LET next == Edited(i, e) IN
         /\ next \in Inputs /\ Entered(Append(events, e), next)
         /\ Placed(Append(events, e), next)
<1>1. CASE e.key \in VisibleMarks
  <2>1. Edited(i, e) = PushCharacter(i, e.key)
    BY <1>1 DEF Edited, VisibleMarks
  <2> QED
    BY <1>1, <2>1, VisibleEntered
<1>2. CASE e.key = "foreign"
  <2>1. Edited(i, e) = Rejected(i)
    BY <1>2 DEF Edited, PushCharacter
  <2>2. Rejected(i) \in Inputs /\ Rejected(i).rejected
    BY DEF Rejected, Inputs
  <2> QED
    BY <2>1, <2>2, RejectedHolds
<1>3. CASE e.key = "blank"
  <2>1. Edited(i, e) = PushBlank(i)
    BY <1>3 DEF Edited, VisibleMarks
  <2> QED
    BY <1>3, <2>1, BlankEntered
<1>4. CASE e.key = "backspace"
  <2>1. Edited(i, e) = Backspace(i)
    BY <1>4 DEF Edited, VisibleMarks
  <2> QED
    BY <1>4, <2>1, Corrected
<1>5. CASE e.key = "paste"
  <2>1. Edited(i, e) = PushPaste(i, e.text)
    BY <1>5 DEF Edited, VisibleMarks
  <2> QED
    BY <1>5, <2>1, Pasted
<1>6. CASE e.key = "enter" /\ ~Submits(i)
  <2>1. Edited(i, e) = [i EXCEPT !.state = "ContinuationStart"]
    BY <1>6 DEF Edited, VisibleMarks
  <2>2. /\ Edited(i, e) \in Inputs /\ Edited(i, e).value = i.value
        /\ Edited(i, e).rejected = i.rejected
        /\ Edited(i, e).state = "ContinuationStart"
    BY <2>1 DEF Inputs
  <2> QED
    BY <1>6, <2>2, BreakEntered
<1>7. CASE e.key = "enter" /\ Submits(i)
  <2>1. Edited(i, e) = i
    BY <1>7 DEF Edited, VisibleMarks
  <2>2. i.state # "Content"
    BY <1>7 DEF Submits
  <2> QED
    BY <1>7, <2>1, <2>2, BreakEntered
<1>8. CASE e.key \notin VisibleMarks \cup
                        {"foreign", "blank", "backspace", "paste", "enter"}
  <2>1. Edited(i, e) = i
    BY <1>8 DEF Edited
  <2>2. TextOf(e) = <<>>
    BY <1>8, EventType DEF TextOf
  <2> QED
    BY <1>8, <2>1, <2>2, NothingMore
<1> QED
  BY <1>1, <1>2, <1>3, <1>4, <1>5, <1>6, <1>7, <1>8

-----------------------------------------------------------------------------
(* What was sent is what was read and what is still queued.                *)

LEMMA SentGrows ==
  ASSUME NEW s \in Seq(Events), NEW q \in Seq(Events), NEW e \in Events
  PROVE  Append(s \o q, e) = s \o Append(q, e)
<1>1. <<e>> \in Seq(Events) /\ s \o q \in Seq(Events)
  BY ConcatProperties
<1>2. Append(s \o q, e) = (s \o q) \o <<e>> /\ Append(q, e) = q \o <<e>>
  BY <1>1, AppendIsConcat
<1> QED
  BY <1>1, <1>2, ConcatAssociative

LEMMA HeadMoves ==
  ASSUME NEW s \in Seq(Events), NEW q \in Seq(Events), q # <<>>
  PROVE  /\ Head(q) \in Events /\ Tail(q) \in Seq(Events)
         /\ Append(s, Head(q)) \in Seq(Events)
         /\ s \o q = Append(s, Head(q)) \o Tail(q)
<1> DEFINE e == Head(q)
           t == Tail(q)
<1>1. /\ e \in Events /\ t \in Seq(Events) /\ Len(t) = Len(q) - 1
      /\ \A i \in 1 .. Len(t) : t[i] = q[i + 1]
      /\ q[1] = e /\ Len(q) \in Nat \ {0}
  BY HeadTailProperties, EmptySeq
<1> HIDE DEF e, t
<1>2. <<e>> \in Seq(Events) /\ Len(<<e>>) = 1 /\ <<e>>[1] = e
  BY <1>1
<1>3. q = <<e>> \o t
  <2>1. <<e>> \o t \in Seq(Events) /\ Len(<<e>> \o t) = 1 + Len(t)
        /\ \A i \in 1 .. 1 + Len(t) :
             (<<e>> \o t)[i] = IF i <= 1 THEN <<e>>[i] ELSE t[i - 1]
    BY <1>1, <1>2, ConcatProperties
  <2>2. ASSUME NEW i \in 1 .. Len(q) PROVE q[i] = (<<e>> \o t)[i]
    <3>1. CASE i = 1
      BY <1>1, <1>2, <2>1, <3>1
    <3>2. CASE i # 1
      <4>1. i - 1 \in 1 .. Len(t) /\ i \in 1 .. 1 + Len(t) /\ (i - 1) + 1 = i
            /\ ~ (i <= 1)
        BY <1>1, <3>2
      <4> QED
        BY <1>1, <2>1, <4>1
    <3> QED
      BY <3>1, <3>2
  <2>3. Len(q) = Len(<<e>> \o t)
    BY <1>1, <2>1
  <2> QED
    BY <2>1, <2>2, <2>3, SeqEqual
<1>4. Append(s, e) = s \o <<e>> /\ Append(s, e) \in Seq(Events)
  BY <1>1, AppendIsConcat, AppendProperties
<1>5. s \o (<<e>> \o t) = (s \o <<e>>) \o t
  BY <1>1, <1>2, ConcatAssociative
<1> QED
  BY <1>1, <1>3, <1>4, <1>5 DEF e, t

-----------------------------------------------------------------------------
(* An accepted token.                                                      *)

EntryTypes ==
  /\ input \in Inputs
  /\ sent \in Seq(Events) /\ queue \in Seq(Events)
  /\ signal \in {"none", "pending", "taken"}
  /\ drained \in {"none", "io", "extra", "interrupted"}

Unread == pc \in {"start", "paste", "show", "loop"}

(* Reading has ended well, and nothing has been found behind the end.      *)
ReadWell == pc \in {"drain", "restore"} /\ read = "ok" /\ drained = "none"

EntryKnown ==
  /\ pc = "start" => signal = "none"
  /\ Unread =>
       /\ drained = "none" /\ signal # "taken"
       /\ \E done \in Seq(Events) :
            sent = done \o queue /\ Entered(done, input) /\ Placed(done, input)
  /\ ReadWell =>
       /\ signal # "taken" /\ ~input.rejected /\ TokenValid(input.value)
       /\ \E done \in Seq(Events) : sent = done \o queue /\ Entered(done, input)
       /\ pc = "restore" => queue = <<>>

EntryInv == EntryTypes /\ EntryKnown /\ AcceptedIsEntered

LEMMA AcceptedByEntered ==
  ASSUME result = "ok" =>
           /\ TokenValid(input.value) /\ ~input.rejected /\ signal = "none"
           /\ Entered(sent, input)
  PROVE  AcceptedIsEntered
BY DEF AcceptedIsEntered, Entered, NoForeign

LEMMA NextAcceptedByEntered ==
  ASSUME result' = "ok" =>
           /\ TokenValid(input'.value) /\ ~input'.rejected /\ signal' = "none"
           /\ Entered(sent', input')
  PROVE  AcceptedIsEntered'
BY DEF AcceptedIsEntered, Entered, NoForeign

LEMMA InitEntry == Init => EntryInv
<1> SUFFICES ASSUME Init PROVE EntryInv
  OBVIOUS
<1>1. /\ pc = "start" /\ queue = <<>> /\ sent = <<>> /\ input = EmptyInput
      /\ signal = "none" /\ drained = "none" /\ result = "none"
  BY DEF Init
<1>2. <<>> \in Seq(Events) /\ <<>> \o <<>> = <<>>
  BY EmptySeq, ConcatEmptySeq
<1>3. EntryTypes
  BY <1>1, <1>2, NothingEntered DEF EntryTypes
<1>4. EntryKnown
  BY <1>1, <1>2, NothingEntered DEF EntryKnown, ReadWell, Unread
<1> QED
  BY <1>1, <1>3, <1>4, AcceptedByEntered DEF EntryInv

(* What standard input gives in one piece.                                 *)
LEMMA PipeEntered ==
  ASSUME NEW t \in Pastes
  PROVE  LET next == PushPaste(EmptyInput, t) IN
         /\ next \in Inputs /\ <<Paste(t)>> \in Seq(Events)
         /\ PasteAccepted(t) =>
              /\ TokenValid(next.value) /\ ~next.rejected
              /\ Entered(<<Paste(t)>>, next)
<1> DEFINE e == Paste(t)
           next == PushPaste(EmptyInput, t)
<1>1. e \in Events /\ e.key = "paste" /\ e.text = t
  BY DEF Events, Paste
<1>2. <<>> \in Seq(Events) /\ Append(<<>>, e) = <<e>> /\ <<e>> \in Seq(Events)
  BY <1>1, EmptySeq
<1> HIDE DEF e
<1>3. next \in Inputs /\ Entered(<<e>>, next)
  BY <1>1, <1>2, NothingEntered, Pasted
<1>4. t \in Seq(Marks)
  BY PromptConstants
<1>5. ASSUME PasteAccepted(t) PROVE TokenValid(next.value) /\ ~next.rejected
  <2>1. TokenValid(VisibleOf(t))
    BY <1>4, <1>5, PasteFacts
  <2>2. next = [[EmptyInput EXCEPT !.state = "BracketedPaste"]
                   EXCEPT !.value = VisibleOf(t)]
    BY <1>5 DEF PushPaste, EmptyInput
  <2>3. next.value = VisibleOf(t) /\ next.rejected = FALSE
    BY <2>2 DEF EmptyInput
  <2> QED
    BY <2>1, <2>3
<1> QED
  BY <1>2, <1>3, <1>5 DEF e

LEMMA LoopEventEntry ==
  ASSUME PromptInv, EntryInv, LoopEvent
  PROVE  EntryInv'
<1> DEFINE e == Head(queue)
<1>1. /\ pc = "loop" /\ queue # <<>> /\ queue' = Tail(queue)
      /\ input' = Edited(input, e)
      /\ sent' = sent /\ signal' = signal /\ drained' = drained /\ result' = result
      /\ \/ pc' = "loop" /\ read' = read
         \/ pc' = "drain" /\ read' \in {"interrupted", "cancelled", "rejected"}
         \/ /\ pc' = "drain" /\ read' = "ok" /\ Finished(input) = "ok"
            /\ e.key = "ctrl_d" \/ (e.key = "enter" /\ Submits(input))
  <2>1. Finished(input) \in {"ok", "rejected"}
    BY DEF Finished
  <2>2. \/ pc' = "loop" /\ read' = read
        \/ pc' = "drain" /\ read' \in {"interrupted", "cancelled"}
        \/ /\ pc' = "drain" /\ read' = Finished(input)
           /\ e.key = "ctrl_d" \/ (e.key = "enter" /\ Submits(input))
    BY DEF LoopEvent, Break
  <2> QED
    BY <2>1, <2>2 DEF LoopEvent
<1>2. /\ EntryTypes /\ drained = "none" /\ signal # "taken" /\ result = "none"
  BY <1>1 DEF EntryInv, EntryKnown, Unread, PromptInv, ModesKnown
<1>3. PICK done \in Seq(Events) :
        sent = done \o queue /\ Entered(done, input) /\ Placed(done, input)
  BY <1>1 DEF EntryInv, EntryKnown, Unread
<1> DEFINE now == Append(done, e)
<1>4. /\ e \in Events /\ queue' \in Seq(Events)
      /\ now \in Seq(Events) /\ sent' = now \o queue'
  BY <1>1, <1>2, <1>3, HeadMoves DEF EntryTypes
<1>5. input' \in Inputs /\ Entered(now, input') /\ Placed(now, input')
  BY <1>1, <1>2, <1>3, <1>4, EditedKeeps DEF EntryTypes
<1> HIDE DEF now, e
<1>6. ASSUME pc' = "drain", read' = "ok"
      PROVE  ~input'.rejected /\ TokenValid(input'.value)
  <2>1. Finished(input) = "ok"
        /\ (e.key = "ctrl_d" \/ (e.key = "enter" /\ Submits(input)))
    BY <1>1, <1>2, <1>6 DEF PromptInv, ModesKnown
  <2>2. input' = input
    BY <1>1, <2>1 DEF Edited, VisibleMarks
  <2> QED
    BY <2>1, <2>2 DEF Finished
<1>7. EntryTypes'
  BY <1>1, <1>2, <1>4, <1>5 DEF EntryTypes
<1>8. EntryKnown'
  BY <1>1, <1>2, <1>4, <1>5, <1>6 DEF EntryKnown, Unread, ReadWell
<1>9. AcceptedIsEntered'
  BY <1>1, <1>2, NextAcceptedByEntered
<1> QED
  BY <1>7, <1>8, <1>9 DEF EntryInv

LEMMA SendEntry ==
  ASSUME PromptInv, EntryInv, Send
  PROVE  EntryInv'
<1>1. PICK e \in Events : sent' = Append(sent, e) /\ queue' = Append(queue, e)
  BY DEF Send
<1>2. /\ pc \in {"paste", "show", "loop", "drain"} /\ pc' = pc
      /\ input' = input /\ signal' = signal /\ read' = read
      /\ drained' = drained /\ result' = result
  BY DEF Send, Open
<1>3. result = "none" /\ EntryTypes /\ EntryKnown
  BY <1>2 DEF PromptInv, ModesKnown, EntryInv
<1>4. sent' \in Seq(Events) /\ queue' \in Seq(Events)
  BY <1>1, <1>3, AppendProperties DEF EntryTypes
<1>5. ASSUME NEW done \in Seq(Events), sent = done \o queue
      PROVE  sent' = done \o queue'
  BY <1>1, <1>3, <1>5, SentGrows DEF EntryTypes
<1>6. EntryTypes'
  BY <1>2, <1>3, <1>4 DEF EntryTypes
<1>7. EntryKnown'
  BY <1>2, <1>3, <1>5 DEF EntryKnown, Unread, ReadWell
<1>8. AcceptedIsEntered'
  BY <1>2, <1>3, NextAcceptedByEntered
<1> QED
  BY <1>6, <1>7, <1>8 DEF EntryInv

LEMMA DrainEventEntry ==
  ASSUME PromptInv, EntryInv, DrainEvent
  PROVE  EntryInv'
<1> DEFINE e == Head(queue)
<1>1. /\ pc = "drain" /\ pc' = pc /\ queue # <<>> /\ queue' = Tail(queue)
      /\ input' = input /\ sent' = sent /\ signal' = signal /\ read' = read
      /\ result' = result
      /\ drained' = IF Ignored(e) \/ drained # "none" THEN drained ELSE "extra"
  BY DEF DrainEvent, terminal
<1>2. result = "none" /\ EntryTypes /\ EntryKnown
  BY <1>1 DEF PromptInv, ModesKnown, EntryInv
<1>3. e \in Events /\ queue' \in Seq(Events)
  BY <1>1, <1>2, EmptySeq, HeadMoves DEF EntryTypes
<1>4. EntryTypes'
  BY <1>1, <1>2, <1>3 DEF EntryTypes
<1>5. ASSUME read = "ok", drained' = "none"
      PROVE  /\ signal # "taken" /\ ~input.rejected /\ TokenValid(input.value)
             /\ \E now \in Seq(Events) : sent = now \o queue' /\ Entered(now, input)
  <2>1. drained = "none" /\ Ignored(e)
    BY <1>1, <1>5
  <2>2. /\ signal # "taken" /\ ~input.rejected /\ TokenValid(input.value)
        /\ \E done \in Seq(Events) : sent = done \o queue /\ Entered(done, input)
    BY <1>1, <1>2, <1>5, <2>1 DEF EntryKnown, ReadWell
  <2>3. PICK done \in Seq(Events) : sent = done \o queue /\ Entered(done, input)
    BY <2>2
  <2>4. Append(done, e) \in Seq(Events) /\ sent = Append(done, e) \o queue'
    BY <1>1, <1>2, <2>3, HeadMoves DEF EntryTypes
  <2>5. e.key = "other" /\ TextOf(e) = <<>>
    BY <1>3, <2>1, EventType DEF Ignored, TextOf, VisibleMarks
  <2>6. Entered(Append(done, e), input)
    BY <1>3, <2>3, <2>5, NothingMore
  <2> QED
    BY <2>2, <2>4, <2>6
<1> HIDE DEF e
<1>6. EntryKnown'
  BY <1>1, <1>5 DEF EntryKnown, Unread, ReadWell
<1>7. AcceptedIsEntered'
  BY <1>1, <1>2, NextAcceptedByEntered
<1> QED
  BY <1>4, <1>6, <1>7 DEF EntryInv

LEMMA RestoreEntry ==
  ASSUME PromptInv, EntryInv, RestoreTerminal
  PROVE  EntryInv'
<1>1. /\ pc = "restore" /\ pc' = "drop" /\ queue' = queue /\ sent' = sent
      /\ input' = input /\ read' = read /\ drained' = drained
      /\ signal' = IF signal = "pending" THEN "taken" ELSE signal
      /\ result' = "ok" => signal # "pending" /\ read = "ok" /\ drained = "none"
  <2>1. PICK ok \in Attempts, line \in BOOLEAN :
          result' = Resolved(paste' = "off" /\ ~raw' /\ line)
    BY DEF RestoreTerminal
  <2>2. drained # "ok"
    BY DEF EntryInv, EntryTypes
  <2>3. result' = "ok" => signal # "pending" /\ read = "ok" /\ drained = "none"
    BY <2>1, <2>2 DEF Resolved
  <2> QED
    BY <2>3 DEF RestoreTerminal
<1>2. EntryTypes /\ EntryKnown
  BY DEF EntryInv
<1>3. EntryTypes'
  BY <1>1, <1>2 DEF EntryTypes
<1>4. EntryKnown'
  BY <1>1 DEF EntryKnown, Unread, ReadWell
<1>5. ASSUME result' = "ok"
      PROVE  /\ TokenValid(input.value) /\ ~input.rejected /\ signal' = "none"
             /\ Entered(sent, input)
  <2>1. ReadWell
    BY <1>1, <1>5 DEF ReadWell
  <2>2. /\ signal # "taken" /\ ~input.rejected /\ TokenValid(input.value)
        /\ queue = <<>>
        /\ \E done \in Seq(Events) : sent = done \o queue /\ Entered(done, input)
    BY <1>1, <1>2, <2>1 DEF EntryKnown
  <2>3. Entered(sent, input)
    BY <2>2, ConcatEmptySeq
  <2> QED
    BY <1>1, <1>2, <1>5, <2>2, <2>3 DEF EntryTypes
<1>6. AcceptedIsEntered'
  BY <1>1, <1>5, NextAcceptedByEntered
<1> QED
  BY <1>3, <1>4, <1>6 DEF EntryInv

(* Steps that touch neither the events nor the input.                      *)
LEMMA OtherEntry ==
  ASSUME PromptInv, EntryInv, UNCHANGED <<queue, sent, input>>,
         \/ EnterRawMode \/ EnterBracketedPaste \/ ShowLabel \/ RefuseToAsk
         \/ Signal \/ LoopSignal \/ LoopFails
         \/ DrainSignal \/ DrainFails \/ DrainEnds \/ DropGuard \/ Panic
  PROVE  EntryInv'
<1>1. EntryTypes /\ EntryKnown /\ AcceptedIsEntered /\ TerminalTypes /\ ModesKnown
  BY DEF EntryInv, PromptInv
<1>2. \/ /\ pc' = pc /\ read' = read /\ drained' = drained /\ result' = result
         /\ signal = "none" /\ signal' = "pending" /\ result # "ok"
         /\ pc # "start"
      \/ /\ Unread /\ Unread' /\ pc' # "start"
         /\ read' = read /\ drained' = drained /\ result' = result
         /\ signal' = signal /\ result = "none"
      \/ /\ pc' = "drain" /\ read' \in {"interrupted", "io"} /\ result' = result
         /\ drained' = drained /\ result = "none"
         /\ signal' \in {signal, "taken"}
      \/ /\ pc = "drain" /\ pc' \in {"drain", "restore"} /\ read' = read
         /\ drained' \in {"interrupted", "io"} /\ result' = result
         /\ signal' \in {signal, "taken"} /\ result = "none"
      \/ /\ pc = "drain" /\ pc' = "restore" /\ read' = read /\ drained' = drained
         /\ queue = <<>> \/ drained # "none"
         /\ result' = result /\ signal' = signal /\ result = "none"
      \/ /\ pc' \in {"drop", "ended"} /\ drained' = drained /\ signal' = signal
         /\ result' \in {"refused", "io", "panic"} \/ result' = result
  <2>1. CASE EnterRawMode
    BY <1>1, <2>1 DEF EnterRawMode, End, Unread, ModesKnown
  <2>2. CASE EnterBracketedPaste
    BY <1>1, <2>2 DEF EnterBracketedPaste, Unread, ModesKnown
  <2>3. CASE ShowLabel
    BY <1>1, <2>3 DEF ShowLabel, Unread, ModesKnown
  <2>4. CASE RefuseToAsk
    BY <1>1, <2>4 DEF RefuseToAsk, End
  <2>5. CASE Signal
    BY <1>1, <2>5 DEF Signal, Open, ModesKnown
  <2>6. CASE LoopSignal
    BY <1>1, <2>6 DEF LoopSignal, Break, ModesKnown
  <2>7. CASE LoopFails
    BY <1>1, <2>7 DEF LoopFails, Break, ModesKnown
  <2>8. CASE DrainSignal
    BY <1>1, <2>8 DEF DrainSignal, ModesKnown
  <2>9. CASE DrainFails
    BY <1>1, <2>9 DEF DrainFails, ModesKnown
  <2>10. CASE DrainEnds
    BY <1>1, <2>10 DEF DrainEnds, ModesKnown
  <2>11. CASE DropGuard
    BY <2>11 DEF DropGuard
  <2>12. CASE Panic
    BY <2>12 DEF Panic
  <2> QED
    BY <2>1, <2>2, <2>3, <2>4, <2>5, <2>6, <2>7, <2>8, <2>9, <2>10, <2>11, <2>12
<1>3. queue' = queue /\ sent' = sent /\ input' = input
  OBVIOUS
<1>4. EntryTypes'
  BY <1>1, <1>2, <1>3 DEF EntryTypes
<1>5. EntryKnown'
  BY <1>1, <1>2, <1>3 DEF EntryKnown, EntryTypes, Unread, ReadWell
<1>6. AcceptedIsEntered'
  <2>1. result' = "ok" => result = "ok" /\ signal' = signal
    BY <1>2
  <2> QED
    BY <1>1, <1>3, <2>1 DEF AcceptedIsEntered
<1> QED
  BY <1>4, <1>5, <1>6 DEF EntryInv

LEMMA NextEntry == PromptInv /\ EntryInv /\ [Next]_vars => EntryInv'
<1> SUFFICES ASSUME PromptInv, EntryInv, [Next]_vars PROVE EntryInv'
  OBVIOUS
<1>1. CASE ReadPipe
  <2>1. PICK t \in Pastes :
          /\ sent' = <<Paste(t)>> /\ input' = PushPaste(EmptyInput, t)
          /\ End(IF PasteAccepted(t) THEN "ok" ELSE "rejected")
    BY <1>1 DEF ReadPipe
  <2>2. /\ pc = "start" /\ pc' = "ended" /\ queue' = queue /\ signal' = signal
        /\ drained' = drained
        /\ result' = "ok" => PasteAccepted(t)
    BY <1>1, <2>1 DEF ReadPipe, End
  <2>3. signal = "none"
    BY <2>2 DEF EntryInv, EntryKnown
  <2>4. EntryTypes'
    BY <2>1, <2>2, PipeEntered DEF EntryInv, EntryTypes
  <2>5. EntryKnown'
    BY <2>2 DEF EntryKnown, Unread, ReadWell
  <2>6. AcceptedIsEntered'
    BY <2>1, <2>2, <2>3, PipeEntered, NextAcceptedByEntered
  <2> QED
    BY <2>4, <2>5, <2>6 DEF EntryInv
<1>2. CASE Send
  BY <1>2, SendEntry
<1>3. CASE LoopEvent
  BY <1>3, LoopEventEntry
<1>4. CASE DrainEvent
  BY <1>4, DrainEventEntry
<1>5. CASE RestoreTerminal
  BY <1>5, RestoreEntry
<1>6. CASE \/ EnterRawMode \/ EnterBracketedPaste \/ ShowLabel \/ RefuseToAsk
           \/ Signal \/ LoopSignal \/ LoopFails
           \/ DrainSignal \/ DrainFails \/ DrainEnds \/ DropGuard \/ Panic
  <2>1. UNCHANGED <<queue, sent, input>>
    BY <1>6 DEF EnterRawMode, EnterBracketedPaste, ShowLabel, RefuseToAsk, Signal,
       LoopSignal, LoopFails, DrainSignal, DrainFails, DrainEnds, DropGuard, Panic
  <2> QED
    BY <1>6, <2>1, OtherEntry
<1>7. CASE UNCHANGED vars
  <2>1. /\ pc' = pc /\ queue' = queue /\ sent' = sent /\ input' = input
        /\ signal' = signal /\ read' = read /\ drained' = drained
        /\ result' = result
    BY <1>7 DEF vars
  <2> QED
    BY <2>1 DEF EntryInv, EntryTypes, EntryKnown, Unread, ReadWell,
       AcceptedIsEntered
<1> QED
  BY <1>1, <1>2, <1>3, <1>4, <1>5, <1>6, <1>7 DEF Next

(* A token that is accepted is all of what was entered: no key, paste or   *)
(* line break of it was rejected or left out, nothing came after its end   *)
(* and no signal in between, although nothing of it was ever on the screen *)
(* (ClaudeSetupTokenInput, reject_queued_secret_input).                    *)
THEOREM AcceptedAlwaysEntered == Spec => []AcceptedIsEntered
<1>1. PromptInv /\ EntryInv /\ [Next]_vars => PromptInv' /\ EntryInv'
  BY NextInv, NextEntry
<1>2. Init => PromptInv /\ EntryInv
  BY InitInv, InitEntry
<1>3. Spec => [](PromptInv /\ EntryInv)
  BY <1>1, <1>2, PTL DEF Spec
<1>4. PromptInv /\ EntryInv => AcceptedIsEntered
  BY DEF EntryInv
<1> QED
  BY <1>3, <1>4, PTL
=============================================================================
