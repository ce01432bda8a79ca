-------------------------------- MODULE Epoll --------------------------------
(***************************************************************************)
(* What the servers of Chapter 17 rely on in the kernel's epoll: a list of *)
(* descriptors with news, and which of them one epoll_wait hands out.      *)
(***************************************************************************)
EXTENDS Filters, SequencesExt

\* News on a registered descriptor queues it once.
Woken(ready, fd) == IF fd \in ToSet(ready) THEN ready ELSE Append(ready, fd)

\* close and EPOLL_CTL_DEL take a descriptor out of the list.
Forgotten(ready, fd) == Filter(ready, ToSet(ready) \ {fd})

\* epoll_wait drops what has nothing to report any more.  Of the others, live,
\* it reports those with the oldest news, at most size of them.
Reported(live, size) == SubSeq(live, 1, Min({size, Len(live)}))

\* What is left in the list: those not reported, then the level-triggered
\* ones that were, to be looked at again.
Requeued(live, level, size) ==
    SubSeq(live, size + 1, Len(live)) \o Filter(Reported(live, size), level)
=============================================================================
