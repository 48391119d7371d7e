---------------------------- MODULE Rot13Server ----------------------------
(***************************************************************************)
(* The handlers of LibEvent/try1_server.cpp: do_accept, do_read, do_write. *)
(* libevent calls them one at a time; the read event of a connection is    *)
(* always set, its write event after a complete line.                      *)
(*                                                                         *)
(* A connection has a structure fd_state, which alloc_fd_state does not    *)
(* initialise: its memory is fresh, and then zero, or that of a connection *)
(* that has been freed, with the indices and the text it had.              *)
(***************************************************************************)
EXTENDS Sockets, SequencesExt

CONSTANT MaxLine   \* size of the buffer

ASSUME Rot13Assumption == MaxLine \in Nat \ {0, 1}

VARIABLES
  mem,     \* mem[c]: the memory of c's fd_state
  state,   \* state[c]: its contents
  start    \* start[c]: what it was at the beginning (history)

rot13 == <<mem, state, start>>

Rot13Run == server = "rot13" /\ srv = "run"

Zero == <<"zero">>

FdState == [buffer : [0..(MaxLine - 1) -> Texts \cup {Zero}],
            used : 0..MaxLine, written : 0..MaxLine, upto : 0..MaxLine,
            pending : BOOLEAN]    \* the write event is set

Fresh == [buffer |-> [i \in 0..(MaxLine - 1) |-> Zero],
          used |-> 0, written |-> 0, upto |-> 0, pending |-> FALSE]

Rot13TypeOK == /\ mem \in [Clients -> {"none", "live", "freed", "reused"}]
               /\ state \in [Clients -> FdState]
               /\ start \in [Clients -> FdState]

Rot13Init == /\ mem = [c \in Clients |-> "none"]
             /\ state = [c \in Clients |-> Fresh]
             /\ start = [c \in Clients |-> Fresh]

\* buffer[from .. to-1].
Text(s, from, to) == [i \in 1..(to - from) |-> s.buffer[from + i - 1]]

\* rot13_char, on the letters the clients use.
Rot13Char(ch) == <<ch[1], CASE ch[2] = "a" -> "n"
                            [] ch[2] = "n" -> "a"
                            [] ch[2] = "nl" -> "nl">>

-----------------------------------------------------------------------------
\* do_accept: no descriptor left is the end of the process, one that select
\* could not watch the end of the connection.
DoAccept ==
  /\ Rot13Run
  /\ \E c \in Backlog :
       \/ /\ Cardinality(Opened) = limit
          /\ EndProcess("limit") /\ UNCHANGED rot13
       \/ /\ Cardinality(Opened) < limit /\ Cardinality(Opened) >= fdset
          /\ conn' = [conn EXCEPT ![c] = "closed"]
          /\ UNCHANGED <<srv, rot13>>
       \/ \E d \in {c} \cup {x \in Clients : mem[x] = "freed"} :
            /\ Cardinality(Opened) < limit /\ Cardinality(Opened) < fdset
            /\ conn' = [conn EXCEPT ![c] = "open"]
            /\ mem' = [mem EXCEPT ![d] = "reused", ![c] = "live"]
            /\ LET s == [state[d] EXCEPT !.pending = FALSE] IN
                 /\ state' = [state EXCEPT ![c] = s]
                 /\ start' = [start EXCEPT ![c] = s]
            /\ UNCHANGED srv
  /\ UNCHANGED <<setting, client, toServer, toClient, end, epoll>>

\* The loop of do_read over the characters of text: those that find space are
\* stored, and the last end of a line, stored or not, moves upto behind what the
\* buffer holds at that point.
Put(s, text) ==
  LET lines  == {n \in DOMAIN text : text[n][2] = "nl"}
      Upto(n) == IF s.used + n <= MaxLine THEN s.used + n ELSE MaxLine IN
  [s EXCEPT
     !.buffer  = [k \in DOMAIN @ |->
                    IF s.used <= k /\ k < s.used + Len(text)
                      THEN Rot13Char(text[k - s.used + 1]) ELSE @[k]],
     !.used    = Upto(Len(text)),
     !.upto    = IF lines = {} THEN @ ELSE Upto(Max(lines)),
     !.pending = @ \/ lines # {}]

\* free_fd_state: both events are gone, the descriptor stays open.
Free(c) == mem' = [mem EXCEPT ![c] = "freed"]

\* do_read takes all there is; if that ends with the end of the stream, or
\* with an error, the connection is forgotten.
DoRead(c) ==
  /\ Rot13Run /\ mem[c] = "live" /\ Readable(c)
  /\ toServer' = [toServer EXCEPT ![c] = <<>>]
  /\ state' = [state EXCEPT ![c] = Put(@, toServer[c])]
  /\ IF end[c] = "up" THEN UNCHANGED mem ELSE Free(c)
  /\ UNCHANGED <<setting, srv, client, toClient, conn, end, epoll, start>>

\* Mutant: the indices are not reset to the same value.
DrainedUnevenly(s) ==
  IF s.upto = s.used
    THEN [s EXCEPT !.written = 0, !.upto = 1, !.used = 1, !.pending = FALSE]
    ELSE [s EXCEPT !.written = s.upto, !.pending = FALSE]

\* The end of do_write: an empty buffer starts again, at 1.
Drained(s) ==
  IF s.upto = s.used
    THEN [s EXCEPT !.written = 1, !.upto = 1, !.used = 1, !.pending = FALSE]
    ELSE [s EXCEPT !.written = s.upto, !.pending = FALSE]

\* k characters have been sent; if they are not all, send() = EAGAIN follows.
Wrote(s, k) == IF k = s.upto - s.written THEN Drained(s)
                                         ELSE [s EXCEPT !.written = @ + k]

Todo(c) == Text(state[c], state[c].written, state[c].upto)

\* TCP that holds nothing for c takes all of it; else it may take a part.
Takes(c, k) == k = Len(Todo(c)) \/ toClient[c] # <<>>

\* do_write, called while the write event is set and TCP has space; there is
\* always something to send then.
SendText(c) ==
  \E k \in 1..Len(Todo(c)) :
    /\ Takes(c, k)
    /\ end[c] \in {"up", "fin"}
    /\ Write(c, SubSeq(Todo(c), 1, k))
    /\ state' = [state EXCEPT ![c] = Wrote(@, k)]
    /\ UNCHANGED <<srv, conn, mem>>

\* Mutant: an error of send() is not told from a full socket.
SendErrorIgnored(c) ==
  /\ end[c] = "rst"
  /\ Write(c, <<>>)
  /\ UNCHANGED <<srv, conn, mem, state>>

SendError(c) ==
  /\ end[c] = "rst"
  /\ Write(c, <<>>)
  /\ Free(c)
  /\ UNCHANGED <<srv, conn, state>>

SendFatal(c) ==
  /\ Fatal(c)
  /\ EndProcess("sigpipe")
  /\ UNCHANGED <<toClient, end, mem, state>>

DoWrite(c) ==
  /\ Rot13Run /\ mem[c] = "live" /\ state[c].pending
  /\ SendText(c) \/ SendError(c) \/ SendFatal(c)
  /\ UNCHANGED <<setting, client, toServer, epoll, start>>

Rot13Step == DoAccept \/ \E c \in Clients : DoRead(c) \/ DoWrite(c)
=============================================================================
