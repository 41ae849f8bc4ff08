------------------------ MODULE CommandInbox_proofs ------------------------
(***************************************************************************)
(* Theorems about CommandInbox, for any set of commands, any lengths up to *)
(* the size of the buffer and any number of deliveries.                    *)
(***************************************************************************)
EXTENDS CommandInbox, SequenceTheorems, TLAPS

PieceOf(c, i) == [command |-> c, position |-> i]

\* The first n places of the buffer hold the first n pieces of c.
Holds(c, n) == \A i \in 1..n : buffer[i] = PieceOf(c, i)

\* Where the handler stands and the message it works on.
TaskOK ==
    /\ message = <<>> => task = "idle"
    /\ task = "idle" => message = <<>>
    /\ task # "idle" => position >= 1
    /\ task = "begin" /\ position > 1 => position <= Length[message[1]]

\* Who owns the buffer: a message is received only while no command is ready,
\* and what has been received of it is what the message begins with.
OwnerOK ==
    /\ ~(receiving /\ ready)
    /\ receiving /\ task = "begin" /\ position > 1 =>
          Holds(message[1], position - 1) /\ length = position - 1
    /\ receiving /\ task = "copy" =>
          /\ position <= Length[message[1]]
          /\ Holds(message[1], position - 1)
    /\ receiving /\ task = "next" =>
          /\ position < Length[message[1]]
          /\ Holds(message[1], position) /\ length = position
    /\ task = "finish" =>
          /\ receiving
          /\ position = Length[message[1]]
          /\ Holds(message[1], position) /\ length = position

\* A command that is ready is a whole one, or empty.
ReadyOK ==
    ready /\ length # 0 => \E c \in Commands : length = Length[c] /\ Holds(c, length)

\* There is a delivery for every command taken, ready or on its way.
TakesCounted ==
    /\ Len(taken) + (IF ready THEN 1 ELSE 0) <= deliveries
    /\ receiving => Len(taken) + 1 <= deliveries
    /\ task = "begin" /\ position = 1 =>
          Len(taken) + (IF ready THEN 1 ELSE 0) + 1 <= deliveries

InboxInv ==
    TypeOK /\ TaskOK /\ OwnerOK /\ ReadyOK /\ TakesCounted /\ NoMixedCommand

-----------------------------------------------------------------------------
\* What the assumption says of the numbers of pieces.
LEMMA Sizes ==
    /\ MaxPieces \in Nat /\ MaxPieces >= 1 /\ MaxDeliveries \in Nat
    /\ \A c \in Commands : Length[c] \in 0..MaxPieces
    /\ 0 \in 0..MaxPieces /\ 1 \in 0..MaxPieces
BY InboxAssumption

\* What takeCommand reads from the first places of a buffer that holds c.
LEMMA WholeCommand ==
    ASSUME NEW c \in Commands, TypeOK, Holds(c, Length[c])
    PROVE  SubSeq(buffer, 1, Length[c]) = Whole(c)
<1> DEFINE S == Piece \cup {Blank}
           n == Length[c]
<1>1. n \in Nat /\ n <= MaxPieces /\ MaxPieces \in Nat
  BY Sizes
<1>2. \A i \in 1..n : buffer[i] \in S
  BY <1>1 DEF TypeOK
<1>3. /\ SubSeq(buffer, 1, n) \in Seq(S)
      /\ Len(SubSeq(buffer, 1, n)) = n
      /\ \A i \in 1..n : SubSeq(buffer, 1, n)[i] = buffer[i]
  <2> HIDE DEF n, S
  <2>1. \A i \in 1..n : SubSeq(buffer, 1, n)[i] = buffer[1 + i - 1]
    BY <1>1, <1>2, SubSeqProperties
  <2> QED BY <1>1, <1>2, <2>1, SubSeqProperties
<1>4. \A i \in 1..n : SubSeq(buffer, 1, n)[i] = Whole(c)[i]
  BY <1>1, <1>3 DEF Holds, Whole, PieceOf
<1>5. SubSeq(buffer, 1, n) = [i \in 1..n |-> SubSeq(buffer, 1, n)[i]]
  BY <1>1, <1>3, LenProperties
<1> QED BY <1>4, <1>5 DEF Whole

\* The buffer is empty and nobody owns it at the start.
LEMMA InboxInitInv == Init => InboxInv
<1> SUFFICES ASSUME Init PROVE InboxInv
  OBVIOUS
<1>1. TypeOK
  <2>1. buffer \in [1..MaxPieces -> Piece \cup {Blank}]
    BY DEF Init
  <2>2. taken \in Seq(Seq(Piece \cup {Blank})) /\ Len(taken) = 0
    BY EmptySeq DEF Init
  <2>3. length \in 0..MaxPieces /\ position \in 0..MaxPieces
    BY Sizes DEF Init
  <2>4. deliveries \in 0..MaxDeliveries /\ Len(taken) <= deliveries
    BY <2>2, Sizes DEF Init
  <2> QED BY <2>1, <2>2, <2>3, <2>4 DEF Init, TypeOK
<1>2. TaskOK /\ OwnerOK /\ ReadyOK
  BY DEF Init, TaskOK, OwnerOK, ReadyOK
<1>3. TakesCounted /\ NoMixedCommand
  BY DEF Init, TakesCounted, NoMixedCommand
<1> QED BY <1>1, <1>2, <1>3 DEF InboxInv

\* A message that begins to arrive disturbs no copy.
LEMMA DeliverInv ==
    ASSUME InboxInv, NEW c \in Commands, Deliver(c) PROVE InboxInv'
<1> USE Sizes DEF InboxInv, Deliver
<1>1. TypeOK'
  BY DEF TypeOK
<1>2. TaskOK'
  BY DEF TaskOK
<1>3. OwnerOK'
  BY DEF OwnerOK
<1>4. ReadyOK'
  BY DEF ReadyOK, Holds
<1>5. TakesCounted'
  BY DEF TakesCounted, TypeOK, TaskOK
<1>6. NoMixedCommand'
  BY DEF NoMixedCommand
<1> QED BY <1>1, <1>2, <1>3, <1>4, <1>5, <1>6

\* The library's task claims the buffer.
LEMMA BeginPieceInv == ASSUME InboxInv, BeginPiece PROVE InboxInv'
<1> USE Sizes DEF InboxInv, BeginPiece
<1>0. message # <<>> /\ message[1] \in Commands /\ Length[message[1]] \in Nat
  BY DEF TypeOK, TaskOK
<1>1. TypeOK'
  BY <1>0 DEF TypeOK
<1>2. TaskOK'
  BY <1>0 DEF TaskOK
<1>3. OwnerOK'
  BY <1>0 DEF OwnerOK, TypeOK, TaskOK, Holds
<1>4. ReadyOK'
  BY <1>0 DEF ReadyOK, TypeOK, Holds
<1>5. TakesCounted'
  BY <1>0 DEF TakesCounted, TypeOK
<1>6. NoMixedCommand'
  BY DEF NoMixedCommand
<1> QED BY <1>1, <1>2, <1>3, <1>4, <1>5, <1>6

\* A piece is copied behind the pieces before it.
LEMMA CopyPieceInv == ASSUME InboxInv, CopyPiece PROVE InboxInv'
<1> USE Sizes DEF InboxInv, CopyPiece
<1>0. message # <<>> /\ message[1] \in Commands /\ Length[message[1]] \in 0..MaxPieces
  BY DEF TypeOK, TaskOK
<1>1. CASE ~receiving
  <2>1. TypeOK'
    BY <1>0, <1>1 DEF TypeOK
  <2>2. TaskOK' /\ OwnerOK'
    BY <1>0, <1>1 DEF TaskOK, OwnerOK
  <2>3. ReadyOK' /\ TakesCounted' /\ NoMixedCommand'
    BY <1>0, <1>1 DEF ReadyOK, Holds, TakesCounted, NoMixedCommand
  <2> QED BY <2>1, <2>2, <2>3
<1>2. CASE receiving
  <2>1. position \in 1..MaxPieces /\ position <= Length[message[1]]
    BY <1>0, <1>2 DEF TypeOK, TaskOK, OwnerOK
  <2>2. PieceOf(message[1], position) \in Piece
    BY <1>0, <2>1 DEF PieceOf, Piece
  <2>3. buffer' = [buffer EXCEPT ![position] = PieceOf(message[1], position)]
    BY <1>2 DEF PieceOf
  <2>4. buffer' \in [1..MaxPieces -> Piece \cup {Blank}]
    BY <2>1, <2>2, <2>3 DEF TypeOK
  <2>5. Holds(message[1], position)'
    <3>1. buffer'[position] = PieceOf(message[1], position)
      BY <2>1, <2>3 DEF TypeOK
    <3>2. \A i \in 1..(position - 1) : buffer'[i] = PieceOf(message[1], i)
      BY <1>2, <2>1, <2>3 DEF TypeOK, OwnerOK, Holds
    <3>3. \A i \in 1..position : i = position \/ i \in 1..(position - 1)
      BY <2>1
    <3> QED BY <3>1, <3>2, <3>3 DEF Holds, PieceOf
  <2>6. TypeOK'
    BY <1>0, <1>2, <2>1, <2>4 DEF TypeOK
  <2>7. TaskOK'
    BY <1>0, <1>2 DEF TaskOK, LastPiece
  <2>8. OwnerOK'
    BY <1>0, <1>2, <2>1, <2>5 DEF OwnerOK, LastPiece
  <2>9. ReadyOK' /\ TakesCounted' /\ NoMixedCommand'
    BY <1>2 DEF OwnerOK, ReadyOK, TakesCounted, LastPiece, NoMixedCommand
  <2> QED BY <2>6, <2>7, <2>8, <2>9
<1> QED BY <1>1, <1>2

\* The last piece makes the command ready.
LEMMA FinishInv == ASSUME InboxInv, Finish PROVE InboxInv'
<1> USE Sizes DEF InboxInv, Finish
<1>0. message # <<>> /\ message[1] \in Commands
  BY DEF TypeOK, TaskOK
<1>1. TypeOK'
  BY DEF TypeOK
<1>2. TaskOK' /\ OwnerOK'
  BY <1>0 DEF TaskOK, OwnerOK
<1>3. ReadyOK'
  BY <1>0 DEF ReadyOK, OwnerOK, Holds
<1>4. TakesCounted'
  BY DEF TakesCounted, OwnerOK
<1>5. NoMixedCommand'
  BY DEF NoMixedCommand
<1> QED BY <1>1, <1>2, <1>3, <1>4, <1>5

\* The next piece follows, or the message ends early.
LEMMA NextPieceInv == ASSUME InboxInv, NextPiece \/ Interrupt PROVE InboxInv'
<1> USE Sizes DEF InboxInv, NextPiece, Interrupt
<1>0. message # <<>> /\ message[1] \in Commands /\ Length[message[1]] \in 0..MaxPieces
  BY DEF TypeOK, TaskOK
<1>1. position \in Nat /\ position >= 1
  BY DEF TypeOK, TaskOK
<1>2. TypeOK'
  BY <1>0, <1>1 DEF TypeOK
<1>3. TaskOK'
  BY <1>0, <1>1 DEF TaskOK
<1>4. OwnerOK'
  BY <1>0, <1>1 DEF OwnerOK, Holds
<1>5. ReadyOK' /\ TakesCounted' /\ NoMixedCommand'
  BY <1>1 DEF ReadyOK, Holds, TakesCounted, NoMixedCommand
<1> QED BY <1>2, <1>3, <1>4, <1>5

\* The loop takes a ready command and empties the buffer.
LEMMA TakeCommandInv == ASSUME InboxInv, TakeCommand PROVE InboxInv'
<1> USE Sizes DEF InboxInv, TakeCommand
<1> DEFINE S == Piece \cup {Blank}
           command == SubSeq(buffer, 1, length)
<1>1. length \in 0..MaxPieces /\ \A i \in 1..length : buffer[i] \in S
  BY DEF TypeOK
<1>2. command \in Seq(S) /\ (length = 0 => command = <<>>)
  <2> HIDE DEF S
  <2>1. length \in Int
    BY <1>1
  <2>2. command \in Seq(S)
    BY <1>1, <2>1, SubSeqProperties
  <2>3. length = 0 => command = <<>>
    BY <2>1, SubSeqEmpty
  <2> QED BY <2>2, <2>3
<1>3. /\ taken' \in Seq(Seq(S)) /\ Len(taken') = Len(taken) + 1
      /\ \A i \in 1..Len(taken) : taken'[i] = taken[i]
      /\ taken'[Len(taken) + 1] = command
  <2> HIDE DEF S, command
  <2>1. taken \in Seq(Seq(S))
    BY DEF TypeOK, S
  <2>2. taken' = Append(taken, command)
    BY DEF command
  <2> DEFINE T == Seq(S)
  <2>4. taken \in Seq(T) /\ command \in T
    BY <1>2, <2>1
  <2> HIDE DEF T
  <2>5. /\ Append(taken, command) \in Seq(T)
        /\ Len(Append(taken, command)) = Len(taken) + 1
        /\ \A i \in 1..Len(taken) : Append(taken, command)[i] = taken[i]
        /\ Append(taken, command)[Len(taken) + 1] = command
    BY <2>4, AppendProperties
  <2> QED BY <2>2, <2>5 DEF T
<1>4. Len(taken) \in Nat /\ deliveries \in Nat
  BY LenProperties DEF TypeOK
<1>5. TypeOK'
  BY <1>3, <1>4 DEF TypeOK, TakesCounted
<1>6. TaskOK' /\ OwnerOK'
  BY DEF TaskOK, OwnerOK, Holds
<1>7. ReadyOK'
  BY DEF ReadyOK
<1>8. TakesCounted'
  BY <1>3, <1>4 DEF TakesCounted, OwnerOK
<1>9. NoMixedCommand'
  <2>1. command # <<>> => \E c \in Commands : command = Whole(c)
    <3> SUFFICES ASSUME command # <<>> PROVE \E c \in Commands : command = Whole(c)
      OBVIOUS
    <3>1. PICK c \in Commands : length = Length[c] /\ Holds(c, length)
      BY <1>2 DEF ReadyOK
    <3> QED BY <3>1, WholeCommand
  <2> HIDE DEF command
  <2>2. \A i \in 1..Len(taken') : i = Len(taken) + 1 \/ i \in 1..Len(taken)
    BY <1>3, <1>4
  <2>3. ASSUME NEW i \in 1..Len(taken'), taken'[i] # <<>>
        PROVE  \E c \in Commands : taken'[i] = Whole(c)
    <3>1. CASE i = Len(taken) + 1
      BY <1>3, <2>1, <2>3, <3>1
    <3>2. CASE i \in 1..Len(taken)
      <4>1. taken'[i] = taken[i]
        BY <1>3, <3>2
      <4> QED BY <2>3, <3>2, <4>1 DEF NoMixedCommand
    <3> QED BY <2>2, <2>3, <3>1, <3>2
  <2> QED BY <2>3 DEF NoMixedCommand, Whole
<1> QED BY <1>5, <1>6, <1>7, <1>8, <1>9

\* Every step keeps the inductive invariant.
LEMMA InboxInvStep == ASSUME InboxInv, [Next]_vars PROVE InboxInv'
<1>1. CASE UNCHANGED vars
  BY <1>1 DEF vars, InboxInv, TypeOK, TaskOK, OwnerOK, ReadyOK, Holds,
              TakesCounted, NoMixedCommand
<1> QED BY <1>1, DeliverInv, BeginPieceInv, CopyPieceInv, FinishInv,
           NextPieceInv, TakeCommandInv DEF Next

\* The inductive invariant holds in every reachable state.
THEOREM InboxInvariant == Spec => []InboxInv
<1>1. InboxInv /\ [Next]_vars => InboxInv'
  BY InboxInvStep
<1> QED BY InboxInitInv, <1>1, PTL DEF Spec

\* takeCommand never returns a mixture of two commands or a part of one,
\* whatever the library delivers while the loop takes.
THEOREM InboxNoMixedCommand == Spec => []NoMixedCommand
BY InboxInvariant, PTL DEF InboxInv
=============================================================================
