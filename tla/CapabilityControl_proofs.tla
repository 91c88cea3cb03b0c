---------------------- MODULE CapabilityControl_proofs ----------------------
(***************************************************************************)
(* Proofs about CapabilityControl, for every set of tools, scopes and      *)
(* control requests and every combination of faults: its type invariant,   *)
(* that only published versions are served, that the reloader remembers    *)
(* dynamic tools only, and that a published capability is served.          *)
(*                                                                         *)
(* None of the last three is inductive: what a reload is going to register *)
(* or sweep was read from the table a while ago.  ReloadInv says what is   *)
(* known of such a reading.                                                *)
(***************************************************************************)
EXTENDS CapabilityControl, TLAPS

-----------------------------------------------------------------------------
(* The inductive invariant *)

\* only the holder of the mutex is inside Reload
MutexInv == \A a \in Reloaders : apc[a] \in ReloadPcs => holder = a

\* enabled rows and listed capabilities are versions somebody published
ApprovedInv ==
    /\ \A t \in Tools : toolStatus[t] = "enabled" => <<t, scope[t]>> \in approved
    /\ \A a \in Reloaders, t \in Tools :
          listing[a][t] \in Scopes => <<t, listing[a][t]>> \in approved

\* a publication of t whose reload has not begun, or has failed
Waiting(t) ==
    \E b \in Admins : /\ job[b] = [op |-> "publish", tool |-> t]
                      /\ apc[b] \in {"reload", "failed"}

\* What a reload that has read the table knows: which tools it has registered,
\* and that a row that was published since has a request waiting for the mutex.
ListingInv ==
    \A a \in Reloaders : apc[a] \in {"register", "sweep"} =>
        /\ apc[a] = "sweep" => todo[a] = {}
        /\ \A t \in Tools :
            /\ t \in todo[a] => listing[a][t] # "unlisted"
            /\ listing[a][t] # "unlisted" /\ t \notin todo[a] =>
                   listing[a][t] # "refused" /\ reg[t] = listing[a][t]
            /\ toolStatus[t] = "enabled" /\ listing[a][t] \notin {scope[t], "refused"} =>
                   Waiting(t)

ReloadInv ==
    /\ TypeOK
    /\ MutexInv
    /\ ApprovedInv
    /\ ListingInv
    /\ OnlyPublishedServed
    /\ RegisteredAreDynamic
    /\ PublishedIsServed

-----------------------------------------------------------------------------
(* Initially the Gateway's main function is about to reload. *)
LEMMA ReloadInvInit == Init => ReloadInv
<1> SUFFICES ASSUME Init PROVE ReloadInv
  OBVIOUS
<1> USE ControlAssumption DEF ControlAssumption, Init
<1>1. TypeOK
  <2>1. scope \in [Tools -> Scopes] /\ approved \subseteq Tools \X Scopes
    OBVIOUS
  <2> QED  BY <2>1 DEF TypeOK, Reloaders, ReloadPcs, Unlisted, NoJob, BuiltInRegistry
<1>2. MutexInv /\ ListingInv
  BY DEF MutexInv, ListingInv, ReloadPcs
<1>3. ApprovedInv
  BY DEF ApprovedInv, Unlisted, Reloaders
<1>4. OnlyPublishedServed /\ RegisteredAreDynamic
  BY DEF OnlyPublishedServed, RegisteredAreDynamic, BuiltInRegistry
<1>5. PublishedIsServed
  BY DEF PublishedIsServed, Excused, Reloaders
<1> QED BY <1>1, <1>2, <1>3, <1>4, <1>5 DEF ReloadInv

-----------------------------------------------------------------------------
(* The steps of requests: they change the table and where the request is. *)

\* a request imports, publishes or disables t
Write(a, t) ==
    \/ \E s \in Safeties, sc \in Scopes : ImportCapability(a, t, s, sc)
    \/ Publish(a, t)
    \/ Disable(a, t)

(* What a write to the table leaves alone, and what it makes of a row. *)
LEMMA WriteFrame ==
  ASSUME TypeOK, NEW a \in Admins, NEW t \in Tools, Write(a, t)
  PROVE  /\ TypeOK'
         /\ UNCHANGED <<reg, registered, holder, listing, todo>>
         /\ apc[a] = "idle"
         /\ apc' = [apc EXCEPT ![a] = apc'[a]]
         /\ apc'[a] \in {"imported", "reload"}
         /\ approved \subseteq approved'
         /\ \A b \in Admins : b # a => job'[b] = job[b]
         /\ \A u \in Tools : u # t => /\ toolStatus'[u] = toolStatus[u]
                                     /\ scope'[u] = scope[u]
         /\ toolStatus'[t] = "enabled" =>
               /\ <<t, scope'[t]>> \in approved'
               /\ job'[a] = [op |-> "publish", tool |-> t]
               /\ apc'[a] = "reload"
<1> USE DEF TypeOK, table, gateway, Reloaders
<1>1. CASE \E s \in Safeties, sc \in Scopes : ImportCapability(a, t, s, sc)
  BY <1>1 DEF ImportCapability, Statuses
<1>2. CASE Publish(a, t)
  BY <1>2 DEF Publish, Statuses
<1>3. CASE Disable(a, t)
  BY <1>3 DEF Disable, Statuses
<1> QED BY <1>1, <1>2, <1>3 DEF Write

(* A write keeps the invariant: the row it enables has a publication       *)
(* waiting for the mutex, which excuses every reading older than the row.  *)
LEMMA WriteStep ==
  ASSUME ReloadInv, NEW a \in Admins, NEW t \in Tools, Write(a, t)
  PROVE  ReloadInv'
<1> USE DEF ReloadInv
<1>1. /\ TypeOK'
      /\ UNCHANGED <<reg, registered, holder, listing, todo>>
      /\ apc[a] = "idle"
      /\ apc' = [apc EXCEPT ![a] = apc'[a]]
      /\ apc'[a] \in {"imported", "reload"}
      /\ approved \subseteq approved'
      /\ \A b \in Admins : b # a => job'[b] = job[b]
      /\ \A u \in Tools : u # t => toolStatus'[u] = toolStatus[u] /\ scope'[u] = scope[u]
      /\ toolStatus'[t] = "enabled" =>
            /\ <<t, scope'[t]>> \in approved'
            /\ job'[a] = [op |-> "publish", tool |-> t]
            /\ apc'[a] = "reload"
  BY WriteFrame
<1>2. a \in Reloaders /\ a # Boot /\ Boot \in Reloaders
  BY ControlAssumption DEF ControlAssumption, Reloaders
<1>3. \A b \in Reloaders : b # a => apc'[b] = apc[b]
  BY <1>1, <1>2 DEF TypeOK
<1>4. \A b \in Reloaders : apc'[b] \in {"list", "register", "sweep"} => b # a
  BY <1>1
<1>5. MutexInv'
  BY <1>1, <1>3, <1>4 DEF MutexInv, ReloadPcs
<1>6. ApprovedInv'
  <2>1. ASSUME NEW u \in Tools, toolStatus'[u] = "enabled"
        PROVE  <<u, scope'[u]>> \in approved'
    BY <1>1, <2>1 DEF ApprovedInv
  <2>2. ASSUME NEW b \in Reloaders, NEW u \in Tools, listing'[b][u] \in Scopes
        PROVE  <<u, listing'[b][u]>> \in approved'
    BY <1>1, <2>2 DEF ApprovedInv
  <2> QED BY <2>1, <2>2 DEF ApprovedInv
<1>7. \A u \in Tools : Waiting(u) => Waiting(u)'
  <2> SUFFICES ASSUME NEW u \in Tools, NEW b \in Admins,
                      job[b] = [op |-> "publish", tool |-> u],
                      apc[b] \in {"reload", "failed"}
               PROVE  Waiting(u)'
    BY DEF Waiting
  <2>1. b # a /\ b \in Reloaders
    BY <1>1 DEF Reloaders
  <2> QED BY <1>1, <1>3, <2>1 DEF Waiting
<1>8. toolStatus'[t] = "enabled" => Waiting(t)'
  BY <1>1 DEF Waiting
<1>9. ListingInv'
  <2> SUFFICES ASSUME NEW b \in Reloaders, apc'[b] \in {"register", "sweep"}
               PROVE  /\ apc'[b] = "sweep" => todo'[b] = {}
                      /\ \A u \in Tools :
                          /\ u \in todo'[b] => listing'[b][u] # "unlisted"
                          /\ listing'[b][u] # "unlisted" /\ u \notin todo'[b] =>
                                listing'[b][u] # "refused" /\ reg'[u] = listing'[b][u]
                          /\ /\ toolStatus'[u] = "enabled"
                             /\ listing'[b][u] \notin {scope'[u], "refused"}
                             => Waiting(u)'
    BY DEF ListingInv
  <2>1. apc[b] = apc'[b]
    BY <1>3, <1>4
  <2>2. ASSUME NEW u \in Tools, toolStatus'[u] = "enabled",
               listing'[b][u] \notin {scope'[u], "refused"}
        PROVE  Waiting(u)'
    <3>1. CASE u = t  BY <1>8, <2>2, <3>1
    <3>2. CASE u # t  BY <1>1, <1>7, <2>1, <2>2, <3>2 DEF ListingInv
    <3> QED BY <3>1, <3>2
  <2> QED BY <1>1, <2>1, <2>2 DEF ListingInv
<1>10. OnlyPublishedServed' /\ RegisteredAreDynamic'
  BY <1>1 DEF OnlyPublishedServed, RegisteredAreDynamic
<1>11. PublishedIsServed'
  <2> SUFFICES ASSUME NEW u \in Tools, toolStatus'[u] = "enabled", reg'[u] # scope'[u]
               PROVE  Excused(u)'
    BY DEF PublishedIsServed
  <2>1. CASE u = t
    BY <1>8, <2>1 DEF Waiting, Excused
  <2>2. CASE u # t
    <3>1. Excused(u)
      BY <1>1, <2>2 DEF PublishedIsServed
    <3>2. CASE apc[Boot] \in {"list", "register", "failed"}
      BY <1>2, <1>3, <3>2 DEF Excused
    <3>3. CASE \E b \in Admins : /\ job[b] = [op |-> "publish", tool |-> u]
                                /\ apc[b] \in {"reload", "list", "register", "failed"}
      <4>1. PICK b \in Admins : /\ job[b] = [op |-> "publish", tool |-> u]
                                /\ apc[b] \in {"reload", "list", "register", "failed"}
        BY <3>3
      <4>2. b # a /\ b \in Reloaders
        BY <1>1, <4>1 DEF Reloaders
      <4> QED BY <1>1, <1>3, <4>1, <4>2 DEF Excused
    <3> QED BY <3>1, <3>2, <3>3 DEF Excused
  <2> QED BY <2>1, <2>2
<1> QED BY <1>1, <1>5, <1>6, <1>9, <1>10, <1>11

-----------------------------------------------------------------------------
(* The steps of a reload: they leave the table alone. *)

USE DEF table, gateway

(* While one reload is inside the mutex no other one is. *)
LEMMA OneReload ==
  ASSUME MutexInv, NEW a \in Reloaders, apc[a] \in ReloadPcs,
         NEW b \in Reloaders, b # a
  PROVE  apc[b] \notin ReloadPcs
  BY DEF MutexInv

(* A reload call that is lost, or reaches a Gateway that is starting: the  *)
(* request ends as failed, which still excuses its tool.                   *)
LEMMA UnreachableStep ==
  ASSUME ReloadInv, NEW a \in Admins, ReloadUnreachable(a)
  PROVE  ReloadInv'
<1> USE DEF ReloadInv, ReloadUnreachable
<1>0. a \in Reloaders /\ a # Boot
  BY ControlAssumption DEF ControlAssumption, Reloaders
<1>1. TypeOK'  BY <1>0 DEF TypeOK
<1>2. \A b \in Reloaders : apc'[b] = IF b = a THEN "failed" ELSE apc[b]
  BY <1>0 DEF TypeOK
<1>3. MutexInv'  BY <1>2 DEF MutexInv, ReloadPcs
<1>4. ApprovedInv' /\ OnlyPublishedServed' /\ RegisteredAreDynamic'
  BY DEF ApprovedInv, OnlyPublishedServed, RegisteredAreDynamic
<1>5. \A t \in Tools : Waiting(t) => Waiting(t)'
  BY <1>2 DEF Waiting, Reloaders
<1>6. ListingInv'
  BY <1>2, <1>5 DEF ListingInv
<1>7. PublishedIsServed'
  BY <1>0, <1>2 DEF PublishedIsServed, Excused, Reloaders
<1> QED BY <1>1, <1>3, <1>4, <1>6, <1>7

(* A reload takes the mutex: its request no longer waits, but no reload is *)
(* left whose reading it would have to excuse.                             *)
LEMMA BeginStep ==
  ASSUME ReloadInv, NEW a \in Admins, BeginReload(a)
  PROVE  ReloadInv'
<1> USE DEF ReloadInv, BeginReload
<1>0. a \in Reloaders /\ a # Boot
  BY ControlAssumption DEF ControlAssumption, Reloaders
<1>1. TypeOK'  BY <1>0 DEF TypeOK, ReloadPcs
<1>2. \A b \in Reloaders : apc'[b] = IF b = a THEN "list" ELSE apc[b]
  BY <1>0 DEF TypeOK
<1>3. \A b \in Reloaders : apc[b] \notin ReloadPcs
  BY ControlAssumption DEF MutexInv, ControlAssumption, Reloaders
<1>4. MutexInv'  BY <1>2, <1>3 DEF MutexInv
<1>5. ListingInv'  BY <1>2, <1>3 DEF ListingInv, ReloadPcs
<1>6. ApprovedInv' /\ OnlyPublishedServed' /\ RegisteredAreDynamic'
  BY DEF ApprovedInv, OnlyPublishedServed, RegisteredAreDynamic
<1>7. PublishedIsServed'
  BY <1>0, <1>2 DEF PublishedIsServed, Excused, Reloaders
<1> QED BY <1>1, <1>4, <1>5, <1>6, <1>7

(* The reading of the table is current when it is made. *)
LEMMA ListStep ==
  ASSUME ReloadInv, NEW a \in Reloaders, ListCapabilities(a)
  PROVE  ReloadInv'
<1> USE DEF ReloadInv, ListCapabilities
<1>1. /\ apc'[a] = "register"
      /\ todo'[a] = {t \in Tools : toolStatus[t] = "enabled"}
      /\ \A t \in Tools : listing'[a][t] = Listed(t)
      /\ \A b \in Reloaders : b # a => /\ apc'[b] = apc[b]
                                      /\ listing'[b] = listing[b]
                                      /\ todo'[b] = todo[b]
  BY DEF TypeOK
<1>2. \A t \in Tools : Listed(t) \in Scopes \cup {"unlisted", "refused"}
  BY DEF TypeOK, Listed
<1>3. TypeOK'
  <2>1. listing' \in [Reloaders -> [Tools -> Scopes \cup {"unlisted", "refused"}]]
    BY <1>2 DEF TypeOK
  <2> QED BY <2>1 DEF TypeOK, ReloadPcs
<1>4. MutexInv'  BY <1>1 DEF MutexInv, ReloadPcs
<1>5. ApprovedInv'
  BY <1>1, ControlAssumption DEF ApprovedInv, Listed, ControlAssumption
<1>6. ListingInv'
  <2>1. \A b \in Reloaders : b # a => apc'[b] \notin ReloadPcs
    BY <1>1, OneReload DEF ReloadPcs
  <2>2. \A t \in Tools :
          /\ t \in todo'[a] => Listed(t) # "unlisted"
          /\ t \notin todo'[a] => Listed(t) = "unlisted"
          /\ toolStatus[t] = "enabled" => Listed(t) \in {scope[t], "refused"}
    BY <1>1, ControlAssumption DEF Listed, ControlAssumption, TypeOK
  <2> QED BY <1>1, <2>1, <2>2 DEF ListingInv, ReloadPcs
<1>7. OnlyPublishedServed' /\ RegisteredAreDynamic'
  BY DEF OnlyPublishedServed, RegisteredAreDynamic
<1>8. PublishedIsServed'
  BY <1>1 DEF PublishedIsServed, Excused, Reloaders
<1> QED BY <1>3, <1>4, <1>5, <1>6, <1>7, <1>8

(* Registering what was listed: a version that is outdated by now has a    *)
(* publication waiting.                                                    *)
LEMMA RegisterStep ==
  ASSUME ReloadInv, NEW a \in Reloaders, NEW t \in Tools, RegisterCapability(a, t)
  PROVE  ReloadInv'
<1> USE DEF ReloadInv, RegisterCapability
<1>1. /\ listing[a][t] \in Scopes
      /\ listing[a][t] # "refused"
  BY DEF TypeOK, ListingInv
<1>2. /\ todo'[a] = todo[a] \ {t}
      /\ \A b \in Reloaders : b # a => todo'[b] = todo[b]
      /\ \A u \in Tools : reg'[u] = IF u = t THEN listing[a][t] ELSE reg[u]
  BY DEF TypeOK
<1>3. TypeOK'  BY <1>1 DEF TypeOK
<1>4. MutexInv' /\ ApprovedInv'  BY DEF MutexInv, ApprovedInv
<1>5. \A u \in Tools : Waiting(u) => Waiting(u)'
  BY DEF Waiting
<1>6. ListingInv'
  <2>1. \A b \in Reloaders : b # a => apc'[b] \notin ReloadPcs
    BY OneReload DEF ReloadPcs
  <2> QED BY <1>1, <1>2, <1>5, <2>1 DEF ListingInv, ReloadPcs
<1>7. OnlyPublishedServed' /\ RegisteredAreDynamic'
  BY <1>1, <1>2 DEF OnlyPublishedServed, RegisteredAreDynamic, ApprovedInv, TypeOK
<1>8. PublishedIsServed'
  <2> SUFFICES ASSUME NEW u \in Tools, toolStatus[u] = "enabled", reg'[u] # scope[u]
               PROVE  Excused(u)
    BY DEF PublishedIsServed, Excused
  <2>1. CASE u = t
    <3>1. Waiting(t)  BY <1>1, <1>2, <2>1 DEF ListingInv
    <3> QED BY <2>1, <3>1 DEF Waiting, Excused
  <2>2. CASE u # t  BY <1>2, <2>2 DEF PublishedIsServed
  <2> QED BY <2>1, <2>2
<1> QED BY <1>3, <1>4, <1>6, <1>7, <1>8

(* Everything listed is registered: whatever the end of this reload's      *)
(* excuse leaves unserved was published after the reading.                 *)
LEMMA RegisterDoneStep ==
  ASSUME ReloadInv, NEW a \in Reloaders, RegisterDone(a)
  PROVE  ReloadInv'
<1> USE DEF ReloadInv, RegisterDone
<1>1. \A b \in Reloaders : apc'[b] = IF b = a THEN "sweep" ELSE apc[b]
  BY DEF TypeOK
<1>2. TypeOK'  BY DEF TypeOK, ReloadPcs
<1>3. MutexInv' /\ ApprovedInv'  BY <1>1 DEF MutexInv, ApprovedInv, ReloadPcs
<1>4. \A u \in Tools : Waiting(u) => Waiting(u)'
  BY <1>1 DEF Waiting, Reloaders
<1>5. ListingInv'
  <2>1. \A b \in Reloaders : b # a => apc'[b] \notin ReloadPcs
    BY <1>1, OneReload DEF ReloadPcs
  <2> QED BY <1>1, <1>4, <2>1 DEF ListingInv, ReloadPcs
<1>6. OnlyPublishedServed' /\ RegisteredAreDynamic'
  BY DEF OnlyPublishedServed, RegisteredAreDynamic
<1>7. PublishedIsServed'
  <2> SUFFICES ASSUME NEW u \in Tools, toolStatus[u] = "enabled", reg[u] # scope[u]
               PROVE  Waiting(u)'
    BY DEF PublishedIsServed, Waiting, Excused
  <2>1. listing[a][u] \notin {scope[u], "refused"}
    BY ControlAssumption DEF ListingInv, TypeOK, ControlAssumption
  <2> QED BY <1>4, <2>1 DEF ListingInv
<1> QED BY <1>2, <1>3, <1>5, <1>6, <1>7

(* A sweep takes away what the reading does not list; if it is published   *)
(* again by now, its publication is waiting.                               *)
LEMMA SweepStep ==
  ASSUME ReloadInv, NEW a \in Reloaders, NEW t \in Tools, SweepCapability(a, t)
  PROVE  ReloadInv'
<1> USE DEF ReloadInv, SweepCapability
<1>1. /\ t \in registered
      /\ listing[a][t] = "unlisted"
      /\ \A u \in Tools : reg'[u] = IF u = t THEN "none" ELSE reg[u]
  BY DEF Stale, TypeOK
<1>2. TypeOK'  BY <1>1 DEF TypeOK
<1>3. MutexInv' /\ ApprovedInv'  BY DEF MutexInv, ApprovedInv
<1>4. \A u \in Tools : Waiting(u) => Waiting(u)'
  BY DEF Waiting
<1>5. ListingInv'
  <2>1. \A b \in Reloaders : b # a => apc'[b] \notin ReloadPcs
    BY OneReload DEF ReloadPcs
  <2> QED BY <1>1, <1>4, <2>1 DEF ListingInv, ReloadPcs
<1>6. OnlyPublishedServed' /\ RegisteredAreDynamic'
  BY <1>1, ControlAssumption
  DEF OnlyPublishedServed, RegisteredAreDynamic, ControlAssumption, TypeOK
<1>7. PublishedIsServed'
  <2> SUFFICES ASSUME NEW u \in Tools, toolStatus[u] = "enabled", reg'[u] # scope[u]
               PROVE  Excused(u)
    BY DEF PublishedIsServed, Excused
  <2>1. CASE u = t
    <3>1. Waiting(t)
      BY <1>1, <2>1, ControlAssumption DEF ListingInv, TypeOK, ControlAssumption
    <3> QED BY <2>1, <3>1 DEF Waiting, Excused
  <2>2. CASE u # t  BY <1>1, <2>2 DEF PublishedIsServed
  <2> QED BY <2>1, <2>2
<1> QED BY <1>2, <1>3, <1>5, <1>6, <1>7

(* The end of a reload, in success or in failure. *)
LEMMA EndFrame ==
  ASSUME ReloadInv, NEW a \in Reloaders, apc[a] \in ReloadPcs,
         NEW result \in {"ok", "failed"}, EndReload(a, result)
  PROVE  /\ holder' \in Reloaders \cup {Nobody}
         /\ apc' \in [Reloaders -> ReloadPcs \cup {"idle", "imported", "reload", "ok", "failed"}]
         /\ \A b \in Reloaders : apc'[b] = IF b = a THEN result ELSE apc[b]
         /\ listing' \in [Reloaders -> [Tools -> Scopes \cup {"unlisted", "refused"}]]
         /\ todo' \in [Reloaders -> SUBSET Tools]
         /\ UNCHANGED <<toolStatus, safety, scope, approved, reg, job>>
         /\ MutexInv'
         /\ ApprovedInv'
         /\ ListingInv'
         /\ OnlyPublishedServed'
<1> USE DEF ReloadInv, EndReload
<1>0. /\ apc' = [apc EXCEPT ![a] = result]
      /\ listing' = [listing EXCEPT ![a] = Unlisted]
      /\ DOMAIN apc = Reloaders
      /\ DOMAIN listing = Reloaders
  BY DEF TypeOK
<1>1. /\ \A b \in Reloaders : apc'[b] = IF b = a THEN result ELSE apc[b]
      /\ \A b \in Reloaders : listing'[b] = IF b = a THEN Unlisted ELSE listing[b]
  BY <1>0, Zenon
<1>2. \A b \in Reloaders : apc'[b] \notin ReloadPcs
  BY <1>1, OneReload DEF ReloadPcs
<1>3. listing' \in [Reloaders -> [Tools -> Scopes \cup {"unlisted", "refused"}]]
  BY DEF TypeOK, Unlisted
<1>4. todo' \in [Reloaders -> SUBSET Tools]
  BY DEF TypeOK
<1>5. apc' \in [Reloaders -> ReloadPcs \cup {"idle", "imported", "reload", "ok", "failed"}]
  BY DEF TypeOK
<1>6. MutexInv' /\ ListingInv'
  BY <1>2 DEF MutexInv, ListingInv, ReloadPcs
<1>7. ApprovedInv'
  BY <1>1, ControlAssumption DEF ApprovedInv, Unlisted, ControlAssumption
<1> QED BY <1>1, <1>3, <1>4, <1>5, <1>6, <1>7 DEF OnlyPublishedServed

LEMMA FailStep ==
  ASSUME ReloadInv, NEW a \in Reloaders, AbortReload(a) \/ ListFails(a)
  PROVE  ReloadInv'
<1>1. /\ apc[a] \in {"list", "register"}
      /\ EndReload(a, "failed")
      /\ UNCHANGED registered
  BY DEF AbortReload, ListFails
<1>2. PublishedIsServed'
  BY <1>1, EndFrame DEF PublishedIsServed, Excused, Reloaders, ReloadInv, ReloadPcs
<1> QED BY <1>1, <1>2, EndFrame DEF ReloadInv, TypeOK, RegisteredAreDynamic, ReloadPcs

LEMMA FinishStep ==
  ASSUME ReloadInv, NEW a \in Reloaders, FinishReload(a)
  PROVE  ReloadInv'
<1>1. /\ apc[a] = "sweep"
      /\ EndReload(a, "ok")
      /\ registered' = {t \in Tools : listing[a][t] # "unlisted"}
  BY DEF FinishReload
<1>2. RegisteredAreDynamic'
  <2> SUFFICES ASSUME NEW t \in Tools, listing[a][t] # "unlisted"
               PROVE  reg[t] \in Scopes
    BY <1>1, EndFrame DEF RegisteredAreDynamic, ReloadPcs
  <2> QED BY <1>1 DEF ReloadInv, ListingInv, TypeOK
<1>3. PublishedIsServed'
  BY <1>1, EndFrame DEF PublishedIsServed, Excused, Reloaders, ReloadInv, ReloadPcs
<1> QED BY <1>1, <1>2, <1>3, EndFrame DEF ReloadInv, TypeOK, ReloadPcs

(* A restarted Gateway serves the built-in tools and is about to reload. *)
LEMMA RestartStep ==
  ASSUME ReloadInv, RestartGateway
  PROVE  ReloadInv'
<1> USE DEF ReloadInv, RestartGateway
<1>0. Boot \in Reloaders  BY DEF Reloaders
<1>1. \A b \in Reloaders : apc'[b] \in ReloadPcs => b = Boot
  BY DEF ReloadPcs
<1>2. apc'[Boot] = "list"
  BY <1>0
<1>3. TypeOK'
  <2>1. apc' \in [Reloaders -> ReloadPcs \cup {"idle", "imported", "reload", "ok", "failed"}]
    BY DEF TypeOK, ReloadPcs
  <2>2. reg' \in [Tools -> Scopes \cup {"none", "builtin"}]
    BY DEF BuiltInRegistry
  <2>3. listing' \in [Reloaders -> [Tools -> Scopes \cup {"unlisted", "refused"}]]
    BY DEF Unlisted
  <2> QED BY <1>0, <2>1, <2>2, <2>3 DEF TypeOK
<1>4. MutexInv' /\ ListingInv'
  BY <1>1, <1>2 DEF MutexInv, ListingInv, ReloadPcs
<1>5. ApprovedInv' /\ OnlyPublishedServed' /\ RegisteredAreDynamic'
  BY ControlAssumption DEF ApprovedInv, OnlyPublishedServed, RegisteredAreDynamic,
     Unlisted, BuiltInRegistry, ControlAssumption
<1>6. PublishedIsServed'
  BY <1>2 DEF PublishedIsServed, Excused
<1> QED BY <1>3, <1>4, <1>5, <1>6

-----------------------------------------------------------------------------
(* The theorems *)

LEMMA ReloadInvStep == ReloadInv /\ [Next]_cvars => ReloadInv'
<1> SUFFICES ASSUME ReloadInv, [Next]_cvars PROVE ReloadInv'
  OBVIOUS
<1>1. ASSUME NEW a \in Admins, Request(a)  PROVE ReloadInv'
  <2>1. PICK t \in Tools : Write(a, t)
    BY <1>1 DEF Request, Write
  <2> QED BY <2>1, WriteStep
<1>2. ASSUME NEW a \in Admins, ReloadUnreachable(a)  PROVE ReloadInv'
  BY <1>2, UnreachableStep
<1>3. ASSUME NEW a \in Admins, BeginReload(a)  PROVE ReloadInv'
  BY <1>3, BeginStep
<1>4. ASSUME NEW a \in Reloaders, Reload(a)  PROVE ReloadInv'
  <2>1. CASE ListCapabilities(a)  BY <2>1, ListStep
  <2>2. CASE ListFails(a) \/ AbortReload(a)  BY <2>2, FailStep
  <2>3. CASE \E t \in Tools : RegisterCapability(a, t)  BY <2>3, RegisterStep
  <2>4. CASE \E t \in Tools : SweepCapability(a, t)  BY <2>4, SweepStep
  <2>5. CASE RegisterDone(a)  BY <2>5, RegisterDoneStep
  <2>6. CASE FinishReload(a)  BY <2>6, FinishStep
  <2> QED BY <1>4, <2>1, <2>2, <2>3, <2>4, <2>5, <2>6 DEF Reload
<1>5. CASE RestartGateway  BY <1>5, RestartStep
<1>6. CASE UNCHANGED cvars
  BY <1>6 DEF cvars, ReloadInv, TypeOK, MutexInv, ApprovedInv, ListingInv, Waiting,
     OnlyPublishedServed, RegisteredAreDynamic, PublishedIsServed, Excused
<1> QED BY <1>1, <1>2, <1>3, <1>4, <1>5, <1>6 DEF Next, Operate, Quiescent

THEOREM ReloadInvariant == Spec => []ReloadInv
  BY ReloadInvInit, ReloadInvStep, PTL DEF Spec

(* The columns of the table, the registry and the reloader's own state     *)
(* stay within their values; in particular nothing refused is registered.  *)
THEOREM TypeCorrect == Spec => []TypeOK
<1>1. ReloadInv => TypeOK  BY DEF ReloadInv
<1> QED BY <1>1, ReloadInvariant, PTL

(* Only versions that somebody published are in the Gateway's registry.    *)
THEOREM OnlyPublishedIsServed == Spec => []OnlyPublishedServed
<1>1. ReloadInv => OnlyPublishedServed  BY DEF ReloadInv
<1> QED BY <1>1, ReloadInvariant, PTL

(* A sweep never meets a built-in tool that no capability has replaced.    *)
THEOREM SweepsDynamicToolsOnly == Spec => []RegisteredAreDynamic
<1>1. ReloadInv => RegisteredAreDynamic  BY DEF ReloadInv
<1> QED BY <1>1, ReloadInvariant, PTL

(* A published capability is served in its current version, unless its own *)
(* publication or the Gateway's first reload is under way or has failed.   *)
THEOREM PublishedCapabilitiesAreServed == Spec => []PublishedIsServed
<1>1. ReloadInv => PublishedIsServed  BY DEF ReloadInv
<1> QED BY <1>1, ReloadInvariant, PTL
=============================================================================
