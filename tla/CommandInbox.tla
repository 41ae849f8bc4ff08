---------------------------- MODULE CommandInbox ----------------------------
(***************************************************************************)
(* The one-command buffer of SecureMqttClient                              *)
(* (src/src/communication/SecureMqttClient.cpp): the library's task fills  *)
(* it from the pieces of an incoming message (handleIncomingData) and      *)
(* AppController's loop empties it (takeCommand).  handleIncomingData      *)
(* holds the lock twice and copies in between without it, so it is three   *)
(* steps here.                                                             *)
(*                                                                         *)
(* A command is a message of Length[c] pieces; the buffer holds, at each   *)
(* position, the piece last copied there.  Messages that are too long, or  *)
(* on another topic, are commands of length zero that only reach the first *)
(* step.                                                                   *)
(***************************************************************************)
EXTENDS Naturals, Sequences

CONSTANTS
    Commands,        \* the commands the backend publishes
    Length,          \* how many pieces the library delivers each in
    MaxPieces,       \* MQTT_COMMAND_BUFFER_SIZE, in pieces
    MaxDeliveries    \* bound: deliveries, QoS 1 may repeat one

ASSUME InboxAssumption ==
    /\ MaxPieces \in Nat \ {0} /\ MaxDeliveries \in Nat
    /\ Length \in [Commands -> 0..MaxPieces]

Piece == [command : Commands, position : 1..MaxPieces]
Blank == [position |-> 0]

VARIABLES
    ready,           \* _commandReady
    receiving,       \* _commandReceiving
    length,          \* _commandLength
    buffer,          \* _commandBuffer
    message,         \* the message being delivered, <<>> between two
    position,        \* the piece of it that comes next
    task,            \* where handleIncomingData stands
    deliveries,      \* deliveries so far
    taken            \* history: what takeCommand returned

vars == <<ready, receiving, length, buffer, message, position, task,
          deliveries, taken>>

-----------------------------------------------------------------------------
Whole(c) == [i \in 1..Length[c] |-> [command |-> c, position |-> i]]

\* The library delivers the first piece of a message.
Deliver(c) ==
    /\ message = <<>> /\ task = "idle"
    /\ deliveries < MaxDeliveries
    /\ deliveries' = deliveries + 1
    /\ message' = <<c>>
    /\ position' = 1
    /\ task' = "begin"
    /\ UNCHANGED <<ready, receiving, length, buffer, taken>>

\* First critical section, for the piece at offset zero: the message is taken
\* in only if the buffer is free.
AlwaysReceives ==                                    \* mutant
    /\ task = "begin"
    /\ IF position = 1
         THEN /\ receiving' = (Length[message[1]] > 0)
              /\ length' = 0
         ELSE UNCHANGED <<receiving, length>>
    /\ task' = "copy"
    /\ UNCHANGED <<ready, buffer, message, position, deliveries, taken>>

BeginPiece ==
    /\ task = "begin"
    /\ IF position = 1
         THEN /\ receiving' = (~ready /\ Length[message[1]] > 0)
              /\ length' = 0
         ELSE UNCHANGED <<receiving, length>>
    /\ task' = "copy"
    /\ UNCHANGED <<ready, buffer, message, position, deliveries, taken>>

LastPiece == position = Length[message[1]]

\* The copy, outside the lock.
CopyPiece ==
    /\ task = "copy"
    /\ IF receiving
         THEN /\ buffer' = [buffer EXCEPT ![position] =
                              [command |-> message[1], position |-> position]]
              /\ length' = position
              /\ task' = IF LastPiece THEN "finish" ELSE "next"
         ELSE /\ task' = "next"
              /\ UNCHANGED <<buffer, length>>
    /\ UNCHANGED <<ready, receiving, message, position, deliveries, taken>>

\* Second critical section, once the message is complete.
Finish ==
    /\ task = "finish"
    /\ ready' = TRUE
    /\ receiving' = FALSE
    /\ task' = "next"
    /\ UNCHANGED <<length, buffer, message, position, deliveries, taken>>

\* The handler returns; the library goes on with the next piece, if any.
NextPiece ==
    /\ task = "next"
    /\ IF position < Length[message[1]]
         THEN /\ position' = position + 1
              /\ task' = "begin"
              /\ UNCHANGED message
         ELSE /\ position' = 0
              /\ message' = <<>>
              /\ task' = "idle"
    /\ UNCHANGED <<ready, receiving, length, buffer, deliveries, taken>>

\* The connection is lost: the rest of the message never comes.
Interrupt ==
    /\ task = "next"
    /\ message' = <<>> /\ position' = 0
    /\ task' = "idle"
    /\ UNCHANGED <<ready, receiving, length, buffer, deliveries, taken>>

\* takeCommand, one critical section.
TakeCommand ==
    /\ ready
    /\ taken' = Append(taken, SubSeq(buffer, 1, length))
    /\ ready' = FALSE
    /\ length' = 0
    /\ UNCHANGED <<receiving, buffer, message, position, task, deliveries>>

-----------------------------------------------------------------------------
Init ==
    /\ ready = FALSE /\ receiving = FALSE
    /\ length = 0
    /\ buffer = [i \in 1..MaxPieces |-> Blank]
    /\ message = <<>> /\ position = 0
    /\ task = "idle"
    /\ deliveries = 0
    /\ taken = <<>>

Next ==
    \/ \E c \in Commands : Deliver(c)
    \/ BeginPiece \/ CopyPiece \/ Finish \/ NextPiece \/ Interrupt
    \/ TakeCommand

Spec == Init /\ [][Next]_vars

-----------------------------------------------------------------------------
TypeOK ==
    /\ ready \in BOOLEAN /\ receiving \in BOOLEAN
    /\ length \in 0..MaxPieces
    /\ buffer \in [1..MaxPieces -> Piece \cup {Blank}]
    /\ message = <<>> \/ (Len(message) = 1 /\ message[1] \in Commands)
    /\ position \in 0..MaxPieces
    /\ task \in {"idle", "begin", "copy", "finish", "next"}
    /\ deliveries \in 0..MaxDeliveries
    /\ taken \in Seq(Seq(Piece \cup {Blank})) /\ Len(taken) <= deliveries

\* What the loop reads is never a mixture of two commands, nor a part of one:
\* the copy outside the lock and a take at any moment do not meet.
NoMixedCommand ==
    \A i \in 1..Len(taken) :
        taken[i] # <<>> => \E c \in Commands : taken[i] = Whole(c)
=============================================================================
