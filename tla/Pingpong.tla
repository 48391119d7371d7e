------------------------------- MODULE Pingpong -------------------------------
(***************************************************************************)
(* rc_pingpong, uc_pingpong and ud_pingpong: a server and a client of the   *)
(* same program, with any options each, and what the three programs promise *)
(* together.                                                               *)
(***************************************************************************)
EXTENDS PpLink

VARIABLE ah   \* ud_pingpong: the sides with an address handle

ppVars == <<vars, ah>>

Rc == INSTANCE RcPingpong
Uc == INSTANCE UcPingpong
Ud == INSTANCE UdPingpong

PpInit == Init /\ ah = {}

Program(p) ==
  \/ transport = "rc" /\ Rc!Program(p) /\ UNCHANGED ah
  \/ transport = "uc" /\ Uc!Program(p) /\ UNCHANGED ah
  \/ transport = "ud" /\ Ud!Program(p)

Failure(p) ==
  \/ transport = "rc" /\ Rc!Failure(p) /\ UNCHANGED ah
  \/ transport = "uc" /\ Uc!Failure(p) /\ UNCHANGED ah
  \/ transport = "ud" /\ Ud!Failure(p)

\* What the adapters and the network do of themselves ...
Adapter(p) ==
  /\ IF transport = "rc" THEN Rc!Adapter(p) ELSE Transmit(p) \/ Arrive(p)
  /\ UNCHANGED ah

\* ... and what they may do to a message.
Loss(p) ==
  /\ IF transport = "rc" THEN Rc!RetryExceeded(p) ELSE Lose(p)
  /\ UNCHANGED ah

GiveUp(p) == transport = "rc" /\ Rc!GiveUp(p) /\ UNCHANGED ah

Done == /\ \A p \in Peers : pc[p] \in {"ok", "failed"}
        /\ UNCHANGED ppVars

Next == \/ \E p \in Peers : Program(p) \/ Failure(p) \/ Adapter(p) \/ Loss(p)
        \/ Done

\* A process that can go on goes on; the adapters deliver what can be
\* delivered, and give up on a queue pair that is gone.
Fairness == \A p \in Peers : /\ WF_ppVars(Program(p))
                             /\ WF_ppVars(Adapter(p))
                             /\ WF_ppVars(GiveUp(p))

Spec == PpInit /\ [][Next]_ppVars /\ Fairness

-----------------------------------------------------------------------------
Live(p) == pc[p] \notin {"ok", "failed"}

\* The queues created for RxDepth receives and one send never overflow, and
\* the slot for the send is free whenever the program may use it: parse_single_wc
\* refills and answers between two polls, with what it counts in routs and
\* pending.
QueuesFit == \A p \in Peers :
  /\ Len(cq[p]) <= RxDepth + 1
  /\ rq[p] <= RxDepth
  /\ Live(p) /\ "SEND" \notin pending[p] => SlotFree(p)

\* Whatever is sent, or under way, finds a connected queue pair and a posted
\* receive, unless the other side has failed: the server connects before it
\* writes its address, the client serves after it has read it, and nobody lets
\* its receives run out.  Over UC and UD nobody would hear of such a loss.
MessageLands == \A p \in Peers :
  /\ sq[p] = "posted" => Ready(Other(p)) \/ ~Live(Other(p))
  /\ net[p] > 0 => Ready(p) \/ pc[p] = "failed"

\* ud_pingpong sends only through an address handle: each side has made its own
\* when it is told, by the address or by "done", that it may start.
HandleBeforeSend == \A p \in Peers :
  transport = "ud" /\ sq[p] = "posted" =>
    p \in ah /\ (Live(Other(p)) => Other(p) \in ah)

\* A process that sleeps on events will be woken: the queue is armed before it
\* is polled, and two completions are all there can be.
NeverDeaf == \A p \in Peers :
  pc[p] = "get_event" => events[p] > 0 \/ (armed[p] /\ cq[p] = <<>>)

\* The match a user sees, whatever fails and whatever is lost: the client
\* serves, every message is an answer, and who ends without an error has sent
\* and got Iters messages.
RallySpec == INSTANCE Rally WITH ended <- {p \in Peers : pc[p] = "ok"}
ImplementsRally == RallySpec!Spec

\* When no call fails and no packet is lost, both sides end without an error,
\* unless one combines -e and -t.
BothEnd ==
  (faults = {} /\ \A p \in Peers : mode[p] # "event_ts")
    => <>(\A p \in Peers : pc[p] = "ok")

\* A side whose message cannot be delivered because the other one is gone
\* learns of it from its own completion, asleep or not, and ends.
HearsOfFailure == \A p \in Peers :
  (transport = "rc" /\ sq[p] = "posted" /\ pc[Other(p)] = "failed") ~> ~Live(p)

\* There is no time-out in the programs: only a datagram that the network has
\* lost, or the failure of a side, can keep the other one waiting.
EndsUnlessLost ==
  <>(\/ \A p \in Peers : pc[p] = "ok"
     \/ lost
     \/ \E p \in Peers : pc[p] = "failed")

\* What usage() and main accept: -e and -t together are two ways to run the
\* same exchange, so that with working hardware nobody fails.
NobodyFails == \A p \in Peers : pc[p] # "failed"
=============================================================================
