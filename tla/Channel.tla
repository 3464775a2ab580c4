------------------------------ MODULE Channel ------------------------------
(***************************************************************************)
(* mnsx::achilles::Channel (src/reactor/Channel.cpp): the events a channel *)
(* subscribes to, the callbacks a set of occurred events leads to; and the *)
(* part of epoll the reactor relies on. An event mask is a set of flags.   *)
(***************************************************************************)

NONE_EVENT  == {}
READ_EVENT  == {"IN", "PRI", "RDHUP", "ET"}
WRITE_EVENT == {"OUT", "ET"}

EnableReading(events) == events \cup READ_EVENT
EnableWriting(events) == events \cup WRITE_EVENT

DisableWritingTooMuch(events) == events \ (WRITE_EVENT \cup READ_EVENT)

(* EPOLLET belongs to WRITE_EVENT, so it goes as well: from here on the    *)
(* channel is level triggered.                                             *)
DisableWriting(events) == events \ WRITE_EVENT

DisableAll == NONE_EVENT

(* handleEvent(): the callbacks it invokes ...                             *)
HandleEvent(active) ==
  LET Invokes(callback) ==
        CASE callback = "close" -> "HUP" \in active /\ "IN" \notin active
          [] callback = "error" -> "ERR" \in active
          [] callback = "read"  -> active \cap {"IN", "PRI", "RDHUP"} # {}
          [] callback = "write" -> "OUT" \in active
  IN  {callback \in {"close", "error", "read", "write"} : Invokes(callback)}

(* ... one after the other, in this order.                                 *)
InvokedBefore(callback) ==
  CASE callback = "close" -> {}
    [] callback = "error" -> {"close"}
    [] callback = "read"  -> {"close", "error"}
    [] callback = "write" -> {"close", "error", "read"}

-----------------------------------------------------------------------------
(* Linux. EPOLLHUP and EPOLLERR are reported whether or not one asks.      *)
Reported(mask, events) == mask \cap (events \cup {"HUP", "ERR"})

(* epoll_ctl(ADD or MOD) puts a descriptor on the ready list if there is   *)
(* something to report under the new interest.                             *)
ReadyAfterUpdate(ready, mask, events) == ready \/ Reported(mask, events) # {}

(* An event that occurs puts it there if the interest includes it.         *)
ReadyAfterEdge(ready, event, events) == ready \/ event \in events

(* epoll_wait() takes a reported descriptor off the list if it is edge     *)
(* triggered, and one with nothing to report always.                       *)
ReadyAfterWait(mask, events) ==
  Reported(mask, events) # {} /\ "ET" \notin events
=============================================================================
