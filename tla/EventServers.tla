---------------------------- MODULE EventServers ----------------------------
(***************************************************************************)
(* The epoll server and the rot13 server, each with its clients, and what  *)
(* they owe to a client that stays.                                        *)
(***************************************************************************)
EXTENDS EpollServer, Rot13Server

vars == <<sockVars, batch, rot13>>

Init == SocketsInit /\ batch = {} /\ Rot13Init

ServerStep == \/ EpollStep /\ UNCHANGED rot13
              \/ Rot13Step /\ UNCHANGED batch

Next == \/ ServerStep
        \/ \E c \in Clients : (ClientStep(c) \/ UserStep(c))
                                /\ UNCHANGED <<batch, rot13>>

\* The loops run; a client that can read or go on does.
Fairness == /\ WF_vars(ServerStep)
            /\ \A c \in Clients :
                 WF_vars(ClientStep(c) /\ UNCHANGED <<batch, rot13>>)

Spec == Init /\ [][Next]_vars /\ Fairness

-----------------------------------------------------------------------------
\* Every variable of the clients, of TCP and of the two loops has its type; the
\* indices of a buffer stay within it.
TypeOK == /\ SocketsTypeOK /\ Rot13TypeOK
          /\ batch \subseteq Clients \cup {Listener}

\* What the memory held that its former owner has not been sent, and then c's
\* own text, as the rot13 server should answer it.
Leftover(c) == Text(start[c], start[c].written, start[c].used)
Due(c) == Leftover(c) \o [i \in 1..Len(sent[c]) |-> Rot13Char(sent[c][i])]

\* Nothing c has typed can have been dropped for want of space.
NothingDropped(c) == start[c].used + Len(sent[c]) <= MaxLine

\* s is t with some of its elements left out.
IsSubsequence(s, t) ==
  \E at \in [DOMAIN s -> DOMAIN t] :
    /\ \A i, j \in DOMAIN s : i < j => at[i] < at[j]
    /\ \A i \in DOMAIN s : s[i] = t[at[i]]

\* do_read appends to the buffer, do_write takes from it in parts and resets
\* three indices, in any order, in memory nobody has initialised: a client
\* nevertheless reads its own text, translated and in order, after what an
\* earlier connection may have left there; where something is missing the
\* buffer had been full.
TextInOrder ==
  \A c \in Clients : server = "rot13" =>
    IF NothingDropped(c) THEN IsPrefix(got[c], Due(c))
                         ELSE IsSubsequence(got[c], Due(c))

\* No signal handler is installed, and no write asks for MSG_NOSIGNAL: still no
\* client that just closes its connection, with text unread, under way or not,
\* ends either server.  (A client of test3 killed before it has read can, and
\* one of the rot13 server that closes its two directions one after the other.)
ClosingIsSafe == faults = {} => srv # "sigpipe"

\* How much c has read when its last complete line is answered.
ThroughLastLine(c) ==
  LET lines == {i \in 1..Len(sent[c]) : sent[c][i] = <<c, "nl">>} IN
  IF lines = {} THEN 0 ELSE Len(Leftover(c)) + Max(lines)

Answered(c) ==
  CASE server = "epoll" -> Left(c) /\ (cpc[c] = "done" => got[c] # <<>>)
    [] server = "rot13" -> \/ cpc[c] # "on"
                           \/ ~NothingDropped(c)
                           \/ Len(got[c]) >= ThroughLastLine(c)

\* Edges are reported once, and a write event is set only by a line: still no
\* client is forgotten.  While the server runs and the connection is open, a
\* client of test3 gets its answer and ends, and a client of the rot13 server
\* that goes on reading gets every complete line, unless one did not fit.
NobodyForgotten ==
  \A c \in Clients :
    <>[](conn[c] \in {"none", "closed"} \/ Answered(c))
=============================================================================
