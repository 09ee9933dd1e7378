------------------------------ MODULE CheckinSystem ------------------------------
(***************************************************************************)
(* The whole service: kiosk scans, the vendor's callbacks and the admin's  *)
(* overrides, all handled by one process over Redis and PostgreSQL.        *)
(***************************************************************************)
EXTENDS ScanService, WebhookService, AdminService

CONSTANT Crashes       \* the process may be killed

ASSUME SystemAssumption == Crashes \in BOOLEAN

vars == <<dbVars, redisVars, vendorVars, faults, pub, scan, hook, adm>>

Init ==
  /\ DbInit /\ RedisInit /\ VendorInit /\ faults = 0
  /\ PublishInit /\ ScanInit /\ HookInit /\ AdminInit
--------------------------------------------------------------------------------
Active == {s \in Scans : scan[s].pc \notin {"idle", "done", "crashed"}}

DoScan(s) == ScanStep(s) /\ UNCHANGED <<hook, adm>>

DoVendor(v) ==
  /\ VendorStep(v)
  /\ UNCHANGED <<dbVars, redisVars, faults, pub, scan, hook, adm>>

DoDeliver(d) == Deliver(d) /\ UNCHANGED <<redisVars, pub, scan, adm>>

DoHook(d) == HookStep(d) /\ UNCHANGED <<redisVars, pub, scan, adm>>

DoAdmin(o) == AdminStep(o) /\ UNCHANGED <<vendorVars, pub, scan, hook>>

\* Redis drops a key whose TTL has run out.
DoExpire(a) ==
  /\ \/ ExpireLock(a) /\ UNCHANGED rstate
     \/ ExpireState(a) /\ UNCHANGED lock
  /\ UNCHANGED <<dbVars, vendorVars, faults, pub, scan, hook, adm>>

\* The process dies and is started again: every request in flight and every
\* background task is gone; Redis, PostgreSQL and the vendor keep their state.
Crash ==
  /\ Crashes /\ Fault
  /\ scan' = [s \in Scans |->
       IF s \in Active THEN [scan[s] EXCEPT !.pc = "crashed"] ELSE scan[s]]
  /\ hook' = [d \in Deliveries |->
       IF hook[d].pc \in {"lookup", "commit"}
       THEN [hook[d] EXCEPT !.pc = "lost"] ELSE hook[d]]
  /\ adm' = [o \in AdminOps |->
       IF adm[o].pc \in {"idle", "done", "rejected", "error", "lost"}
       THEN adm[o] ELSE [adm[o] EXCEPT !.pc = "lost"]]
  /\ UNCHANGED <<dbVars, redisVars, vendorVars, pub>>

Work ==
  \/ \E s \in Scans : DoScan(s)
  \/ \E v \in Attempts : DoVendor(v)
  \/ \E d \in Deliveries : DoDeliver(d) \/ DoHook(d)
  \/ \E o \in AdminOps : DoAdmin(o)
  \/ \E a \in Attendees : DoExpire(a)

Next == Work \/ Crash

Spec == Init /\ [][Next]_vars
--------------------------------------------------------------------------------
(***************************************************************************)
(* Fairness, in three parts with three grounds.  Running is what the code  *)
(* gives by itself: the event loop goes on with a publish loop whose wait  *)
(* is over, and httpx's timeouts end its waits.  StoresAnswer is taken for *)
(* granted and not given by the code: Redis and PostgreSQL answer each     *)
(* command, or fail it.  The clients are built without a timeout for       *)
(* commands, so a server that stalls would hold a request for ever.        *)
(* FairVendor adds that the vendor works.  Nothing obliges a kiosk or an   *)
(* admin to send a request, a TTL to run out, or anything to fail: what is *)
(* owed is a step that no failure interrupts.                              *)
(***************************************************************************)
Running ==
  \A s \in Scans : WF_vars(scan[s].pc = "publish" /\ DoScan(s) /\ NoFault)

StoresAnswer ==
  /\ \A s \in Scans :
       WF_vars(scan[s].pc \notin {"idle", "publish"} /\ DoScan(s) /\ NoFault)
  /\ \A d \in Deliveries : WF_vars(DoHook(d) /\ NoFault)
  /\ \A o \in AdminOps : WF_vars(adm[o].pc # "idle" /\ DoAdmin(o) /\ NoFault)

FairSpec == Spec /\ Running /\ StoresAnswer

FairVendor == /\ \A v \in Attempts : WF_vars(DoVendor(v))
              /\ \A d \in Deliveries : WF_vars(DoDeliver(d))

WorkingVendorSpec == FairSpec /\ FairVendor
==================================================================================
