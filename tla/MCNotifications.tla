---------------------------- MODULE MCNotifications ----------------------------
(* Two callers mark any sets of two ids, which may not exist yet, in a     *)
(* table of known and foreign levels that is listed with every shape of    *)
(* filter.                                                                 *)
EXTENDS Notifications

CONSTANT foreign

AllLevels == {"info", "warning", "error", foreign}

AllFilters ==
  [min : {AnyLevel, "info", "warning", "error"},
   categories : {{}, {"flow"}}, unread : BOOLEAN, limit : 0 .. 1]

Everything == {[min |-> AnyLevel, categories |-> {}, unread |-> FALSE, limit |-> 0]}
================================================================================
