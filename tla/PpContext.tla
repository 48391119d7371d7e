------------------------------ MODULE PpContext ------------------------------
(***************************************************************************)
(* The objects a program of RDMA/examples owns: pp_init_ctx takes them one  *)
(* by one and, when a call fails, jumps into a ladder of clean_ labels;     *)
(* pp_close_ctx releases them at the end.  The five programs differ in      *)
(* their objects, their labels and their orders.  The other modules have    *)
(* these functions as single steps.                                         *)
(***************************************************************************)
EXTENDS Naturals, Sequences

CONSTANT ReleaseFails   \* objects whose release may fail in this model

Programs == {"rc", "uc", "ud", "srq", "xsrq"}

\* What exists only with an option: -e, -j.
Optional == {"channel", "dm"}

VARIABLES prog, opts,   \* the program, and its options
          func,         \* the function that runs
          at,           \* how far it is
          live          \* the objects that exist

ctxVars == <<prog, opts, func, at, live>>

\* What an object is built on, and must not outlive.
Needs(o) == CASE o \in {"channel", "pd", "dm"} -> {"dev"}
              [] o = "mr"            -> {"pd", "buf"} \cup (live \cap {"dm"})
              [] o = "cq"            -> {"dev"} \cup (live \cap {"channel"})
              [] o = "recv_cq"       -> {"dev"} \cup (live \cap {"channel"})
              [] o = "send_cq"       -> {"dev"}
              [] o = "srq"           -> IF prog = "srq" THEN {"pd"}
                                        ELSE {"pd", "xrcd", "recv_cq"}
              [] o = "qp"            -> {"pd", "cq"}
              [] o \in {"qp1", "qp2"} -> {"pd", "cq", "srq"}
              [] o = "ah"            -> {"pd"}
              [] o = "xrcd"          -> {"dev"}
              [] o = "recv_qp"       -> {"xrcd"}
              [] o = "send_qp"       -> {"pd", "send_cq"}
              [] OTHER               -> {}

\* The calls of pp_init_ctx, each with the object its clean_ label releases
\* first ("": it returns at once).  "query" and "init" obtain nothing.
RcCalls == << <<"ctx", "">>, <<"buf", "ctx">>, <<"dev", "buf">>,
              <<"channel", "dev">>, <<"pd", "channel">>, <<"query", "pd">>,
              <<"dm", "pd">>, <<"mr", "dm">>, <<"cq", "mr">>, <<"qp", "cq">>,
              <<"init", "qp">> >>

UcCalls == << <<"ctx", "">>, <<"buf", "ctx">>, <<"dev", "buf">>,
              <<"channel", "dev">>, <<"pd", "channel">>, <<"mr", "pd">>,
              <<"cq", "mr">>, <<"qp", "cq">>, <<"init", "qp">> >>

UdCalls == << <<"ctx", "">>, <<"buf", "ctx">>, <<"dev", "buf">>,
              <<"query", "dev">>, <<"channel", "dev">>, <<"pd", "channel">>,
              <<"mr", "pd">>, <<"cq", "mr">>, <<"qp", "cq">>, <<"init", "qp">> >>

SrqCalls == << <<"ctx", "">>, <<"buf", "ctx">>, <<"dev", "buf">>,
               <<"query", "dev">>, <<"channel", "dev">>, <<"pd", "channel">>,
               <<"mr", "pd">>, <<"cq", "mr">>, <<"srq", "cq">>,
               <<"qp1", "srq">>, <<"qp2", "qp1">>, <<"init", "qp2">> >>

\* No labels: main returns with what there is.
XsrqCalls == << <<"ctx", "">>, <<"dev", "">>, <<"query", "">>, <<"buf", "">>,
                <<"channel", "">>, <<"pd", "">>, <<"mr", "">>, <<"fd", "">>,
                <<"xrcd", "">>, <<"recv_cq", "">>, <<"send_cq", "">>,
                <<"srq", "">>, <<"recv_qp", "">>, <<"send_qp", "">> >>

\* The ladders.
RcClean  == <<"qp", "cq", "mr", "dm", "pd", "channel", "dev", "buf", "ctx">>
UcClean  == <<"qp", "cq", "mr", "pd", "channel", "dev", "buf", "ctx">>
UdClean  == <<"qp", "cq", "mr", "pd", "channel", "dev", "buf", "ctx">>
SrqClean == <<"qp2", "qp1", "srq", "cq", "mr", "pd", "channel", "dev", "buf",
              "ctx">>

\* pp_close_ctx.
RcClose   == <<"qp", "cq", "mr", "dm", "pd", "channel", "dev", "buf", "ctx">>
UcClose   == <<"qp", "cq", "mr", "pd", "channel", "dev", "buf", "ctx">>
\* Mutant of UdClose: the address handle is forgotten.
UdCloseNoAh == <<"qp", "cq", "mr", "pd", "channel", "dev", "buf", "ctx">>

UdClose   == <<"qp", "cq", "mr", "ah", "pd", "channel", "dev", "buf", "ctx">>
SrqClose  == <<"qp1", "qp2", "srq", "cq", "mr", "pd", "channel", "dev", "buf",
               "ctx">>
XsrqClose == <<"send_qp", "recv_qp", "srq", "xrcd", "fd", "send_cq", "recv_cq",
               "mr", "pd", "channel", "dev", "buf", "ctx">>

Calls == CASE prog = "rc" -> RcCalls [] prog = "uc" -> UcCalls
           [] prog = "ud" -> UdCalls [] prog = "srq" -> SrqCalls
           [] OTHER -> XsrqCalls

Clean == CASE prog = "rc" -> RcClean [] prog = "uc" -> UcClean
           [] prog = "ud" -> UdClean [] OTHER -> SrqClean

Close == CASE prog = "rc" -> RcClose [] prog = "uc" -> UcClose
           [] prog = "ud" -> UdClose [] prog = "srq" -> SrqClose
           [] OTHER -> XsrqClose

CtxInit == /\ prog \in Programs
           /\ opts \in SUBSET Optional
           /\ func = "init" /\ at = 1 /\ live = {}

Call == Calls[at][1]
Obtains == IF Call \in {"query", "init"} \cup (Optional \ opts) THEN {}
           ELSE {Call}

Go(from, to, last) == /\ func = from
                      /\ IF at < last THEN at' = at + 1 /\ UNCHANGED func
                         ELSE at' = 1 /\ func' = to
                      /\ UNCHANGED <<prog, opts>>

Take == Go("init", "use", Len(Calls)) /\ live' = live \cup Obtains

\* The file of the XRC domain: "but not stopping".
TakeNoFile == /\ func = "init" /\ Call = "fd"
              /\ Go("init", "use", Len(Calls)) /\ UNCHANGED live

\* A call fails: the label that follows it, or the return.
TakeFails ==
  /\ func = "init" /\ Call \notin Optional \ opts /\ Call # "fd"
  /\ IF Calls[at][2] = "" THEN func' = "gave_up" /\ at' = 1
     ELSE /\ func' = "clean"
          /\ at' = CHOOSE k \in DOMAIN Clean : Clean[k] = Calls[at][2]
  /\ UNCHANGED <<prog, opts, live>>

\* The exchange and the loop; ud_pingpong makes its address handle.
Use == /\ Go("use", "close", 1)
       /\ live' = IF prog = "ud" THEN live \cup {"ah"} ELSE live

\* The adapter keeps an object that something is built on; free() asks nobody.
InUse(o) == \E u \in live : o \in Needs(u)
MayGo(o) == ~InUse(o) \/ o = "buf"
MayStay(o) == o \in live /\ (o \in ReleaseFails \/ ~MayGo(o))

\* Releases on the ladder are not looked at; the first one that fails in
\* pp_close_ctx ends the program.
CleanUp == /\ Go("clean", "gave_up", Len(Clean))
           /\ \/ MayGo(Clean[at]) /\ live' = live \ {Clean[at]}
              \/ MayStay(Clean[at]) /\ UNCHANGED live

CloseCtx == /\ Go("close", "closed", Len(Close))
            /\ MayGo(Close[at])
            /\ live' = live \ {Close[at]}

CloseFails == /\ func = "close" /\ MayStay(Close[at])
              /\ func' = "stopped"
              /\ UNCHANGED <<prog, opts, at, live>>

Returned == func \in {"gave_up", "closed", "stopped"} /\ UNCHANGED ctxVars

CtxNext == \/ Take \/ TakeNoFile \/ TakeFails \/ Use
           \/ CleanUp \/ CloseCtx \/ CloseFails
           \/ Returned

-----------------------------------------------------------------------------
MayBeAbsent == (Optional \ opts) \cup {"fd"}

\* Something the system did not release, or that it holds for such a thing.
Stuck(o) == o \in ReleaseFails \/ InUse(o)

\* Whatever call fails, the next object on the ladder or in pp_close_ctx is
\* one that exists, and nothing is built on it that could have been released
\* before.
InOrder ==
  func \in {"clean", "close"} =>
    LET o == IF func = "clean" THEN Clean[at] ELSE Close[at] IN
    /\ o \in live \cup MayBeAbsent
    /\ \A u \in live : o \in Needs(u) => func = "clean" /\ Stuck(u)

\* A pp_close_ctx that reports no failure leaves nothing behind, and a failed
\* pp_init_ctx of the four programs with labels nothing that could go.
NothingOwned ==
  /\ func = "closed" => live = {}
  /\ func = "gave_up" /\ prog # "xsrq" => \A o \in live : Stuck(o)
=============================================================================
