---------------------------- MODULE MCBufferPool ----------------------------
(***************************************************************************)
(* BufferPool with a history variable: which of two cached pages was       *)
(* asked for longer ago.                                                   *)
(***************************************************************************)
EXTENDS BufferPool

\* <<b, a>> is in older when b and a are cached and the last get_page of b
\* came before the last get_page of a.
VARIABLE older

MCInit == Init /\ older = {}

Cached(a) == \E f \in Frame : addrs[f] = a

MCNext ==
  \/ \E a \in Page :
       /\ Get(a)
       /\ older' = {p \in Page \X Page :
                      /\ Cached(p[1])' /\ Cached(p[2])' /\ p[1] # p[2]
                      /\ p[1] # a /\ (p[2] = a \/ p \in older)}
  \/ /\ \/ \E a \in Page : Release(a) \/ (\E v \in Val : Write(a, v))
        \/ DropLast \/ BeginClose \/ CloseFrame
     /\ older' = {p \in older : Cached(p[1])' /\ Cached(p[2])'}
  \/ /\ EndClose \/ Kill \/ Start
     /\ older' = {}

MCSpec == MCInit /\ [][MCNext]_<<vars, older>>

\* A page that loses its frame to another page is, of the pages nobody holds,
\* the one whose last get_page lies furthest back: the ages kept by get_page
\* over hits, misses, refusals and drops add up to least-recently-used.
EvictsLeastRecentlyUsed ==
  [][mode = "up" =>
       \A b \in Page :
         (\E f \in Frame : addrs[f] = b /\ addrs'[f] \notin {b, NoAddr})
           => \A c \in Page : <<c, b>> \in older => c \in Held]_<<vars, older>>
=============================================================================
