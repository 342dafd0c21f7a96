------------------------------ MODULE Mailbox -------------------------------
(***************************************************************************)
(* What the message passing of the kernel promises to its threads, said    *)
(* without scheduling lists, descriptors, pools or a processor.            *)
(*                                                                         *)
(* Every thread has a mailbox.  msgsend puts a message at its end, msgrecv *)
(* takes the first one from the sender it names, or the first of all when  *)
(* it names Nobody; with no such message the thread waits.  A waiting      *)
(* thread gets its message by Handover, which never overtakes one that is  *)
(* already in the mailbox.  A msgsend may also fail, changing nothing.     *)
(*                                                                         *)
(* A thread that has sent to the Server is in a call, until it gets the    *)
(* first message of the Server: in a call it sends nothing and names no    *)
(* other sender.                                                           *)
(*                                                                         *)
(* A thread is closed before it dies: its mailbox is emptied, one message  *)
(* it had sent may be taken back, and whoever waits for it is released     *)
(* without a message.  It dies when nobody waits for it, and whoever is    *)
(* born with its name finds an empty mailbox.                              *)
(***************************************************************************)
EXTENDS Naturals, Sequences, SequencesExt

CONSTANTS Thread, Nobody, Server, Value

VARIABLES
  alive,     \* the threads there are
  waiting,   \* those whose msgrecv has not returned
  wants,     \* the sender that each of these waits for, or Nobody
  mbox,      \* the messages of each thread, the first one first
  closing,   \* the threads that are being terminated
  calling    \* the threads that are in a call

mailvars == <<alive, waiting, wants, mbox, closing, calling>>

Msg(sender, value) == [m_sender |-> sender, m_value |-> value]

\* the places of d's mailbox that hold a message from s, or from anybody
From(d, s) == { i \in DOMAIN mbox[d] : s \in {Nobody, mbox[d][i].m_sender} }

WaitsFor(d, s) == d \in waiting /\ wants[d] \in {s, Nobody}

Release(t) ==
  /\ waiting' = waiting \ {t}
  /\ wants'   = [wants EXCEPT ![t] = Nobody]
\* what becomes of the calls when s has sent to d
Calls(s, d) == IF d = Server THEN calling \cup {s} ELSE calling

\* a thread in a call names the Server
MayName(t, s) == t \in calling => s = Server
-----------------------------------------------------------------------------
Init ==
  /\ alive = {} /\ waiting = {} /\ closing = {} /\ calling = {}
  /\ wants = [t \in Thread |-> Nobody]
  /\ mbox  = [t \in Thread |-> <<>>]

Born(t) ==
  /\ t \notin alive /\ t \notin calling /\ mbox[t] = <<>>
  /\ alive' = alive \cup {t}
  /\ UNCHANGED <<waiting, wants, mbox, closing, calling>>

Send(s, d, value) ==
  /\ s \in alive \ calling /\ d \in alive /\ ~WaitsFor(d, s)
  /\ mbox' = [mbox EXCEPT ![d] = Append(@, Msg(s, value))]
  /\ calling' = Calls(s, d)
  /\ UNCHANGED <<alive, waiting, wants, closing>>

Handover(s, d) ==
  /\ s \in alive \ calling /\ WaitsFor(d, s)
  /\ From(d, wants[d]) = {}
  /\ Release(d)
  /\ calling' = Calls(s, d) \ {d}
  /\ UNCHANGED <<alive, mbox, closing>>

\* a call whose msgsend has failed
LostCall(s) ==
  /\ s \in alive \ calling
  /\ calling' = Calls(s, Server)
  /\ UNCHANGED <<alive, waiting, wants, mbox, closing>>

Receive(t, s, i) ==
  /\ t \in alive \ waiting /\ MayName(t, s)
  /\ i \in From(t, s) /\ \A j \in From(t, s) : i <= j
  /\ mbox' = [mbox EXCEPT ![t] = RemoveAt(@, i)]
  /\ calling' = calling \ {t}
  /\ UNCHANGED <<alive, waiting, wants, closing>>

Wait(t, s) ==
  /\ t \in alive \ waiting /\ MayName(t, s)
  /\ From(t, s) = {}
  /\ waiting' = waiting \cup {t}
  /\ wants'   = [wants EXCEPT ![t] = s]
  /\ UNCHANGED <<alive, mbox, closing, calling>>

Close(t) ==
  /\ closing = {} /\ closing' = {t}
  /\ \/ mbox' = [mbox EXCEPT ![t] = <<>>]
     \/ \E d \in Thread : \E i \in From(d, t) :
          mbox' = [mbox EXCEPT ![d] = RemoveAt(@, i), ![t] = <<>>]
  /\ UNCHANGED <<alive, waiting, wants, calling>>

Abort(t) ==
  /\ t \in waiting /\ wants[t] \in closing
  /\ Release(t)
  /\ UNCHANGED <<alive, mbox, closing, calling>>

Die(t) ==
  /\ t \in alive /\ t \in closing
  /\ mbox[t] = <<>>
  /\ \A u \in waiting : wants[u] # t
  /\ alive' = alive \ {t}
  /\ closing' = closing \ {t}
  /\ calling' = calling \ {t}
  /\ Release(t)
  /\ UNCHANGED mbox

Next ==
  \/ \E t \in Thread : Born(t) \/ LostCall(t) \/ Close(t) \/ Abort(t) \/ Die(t)
  \/ \E s, d \in Thread : Handover(s, d) \/ \E value \in Value : Send(s, d, value)
  \/ \E t \in Thread, s \in Thread \cup {Nobody} :
       Wait(t, s) \/ \E i \in DOMAIN mbox[t] : Receive(t, s, i)

Spec == Init /\ [][Next]_mailvars
=============================================================================
