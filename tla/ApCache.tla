------------------------------ MODULE ApCache ------------------------------
(***************************************************************************)
(* The access point cache of the WiFi connection manager                   *)
(* (sw_services/wifi_manager/FreeRTOS/wifi_connection_mgr.c) and the       *)
(* heapsort it is kept in order with (heapsort.h).                         *)
(*                                                                         *)
(* The code sorts an array of pointers to entries; here sorted_aps holds   *)
(* the entries themselves, so exchanging two pointers exchanges two        *)
(* entries.  An entry that has been aged out is never read again before    *)
(* it is written, so all such entries are the value Inactive.  The         *)
(* strength of an entry is a running average in the code; here a report    *)
(* carries the average it leads to.                                        *)
(***************************************************************************)
EXTENDS Integers, Sequences

CONSTANTS ApBssids,    \* the access points in range
          ApSaved,     \* those the saved profiles may name
          ApSlots,     \* CACHED_AP_COUNT
          ApScanMax,   \* MAX_SCAN_COUNT
          ApMaxAge,    \* AP_CACHE_ENTRY_MAX_AGE
          ApAttempts,  \* MAX_CONNECTION_ATTEMPTS
          ApStrengths  \* the signal strengths told apart

ASSUME ApAssumption ==
  /\ ApSaved \subseteq ApBssids
  /\ {ApSlots, ApScanMax, ApAttempts} \subseteq Nat \ {0}
  /\ ApMaxAge \in Nat \ {0, 1}
  /\ ApStrengths \subseteq Int

VARIABLES sorted_aps,      \* the entries in the order of sorted_aps[]
          ap_cache_count,  \* how many of the first entries are in use
          apProfiles,      \* saved_profiles, by the access point they name
          apFresh          \* the last operation was a successful scan

apVars == <<sorted_aps, ap_cache_count, apProfiles, apFresh>>

ApIndex == 0 .. ApSlots - 1

Inactive == [bssid |-> 0, age |-> 0, rssi |-> 0, failed |-> 0, profile |-> FALSE]

Active(ap) == ap.age > 0

(***************************************************************************)
(* heapsort.h, with ap_cmp and ap_swap.                                    *)
(***************************************************************************)
\* ap_cmp is negative: entry a belongs before entry b.
ap_cmp_before(s, a, b) ==
  /\ Active(s[a])
  /\ Active(s[b]) => s[a].rssi > s[b].rssi

ap_swap(s, a, b) == [s EXCEPT ![a] = s[b], ![b] = s[a]]

left_child_index(root) == 2 * root + 1

\* One round of sift_down on its data and root: the weaker child of the root goes up
\* if it is weaker than the root; otherwise the loop has ended.
sift_round(loop, last) ==
  LET s     == loop.data
      root  == loop.root
      left  == left_child_index(root)
      child == IF left + 1 <= last /\ ap_cmp_before(s, left, left + 1)
               THEN left + 1 ELSE left
  IN IF left <= last /\ ap_cmp_before(s, root, child)
     THEN [data |-> ap_swap(s, root, child), root |-> child]
     ELSE loop

\* A root is smaller than its children, so there are less rounds than entries.
sift_down(s, first, last) ==
  LET at[n \in 0 .. ApSlots] ==
        IF n = 0 THEN [data |-> s, root |-> first] ELSE sift_round(at[n - 1], last)
  IN at[ApSlots].data

heapify(s, first, last) ==
  LET at[n \in 0 .. first + 1] ==
        IF n = 0 THEN s ELSE sift_down(at[n - 1], first + 1 - n, last)
  IN at[first + 1]

\* Mutant: the sort stops one entry early.
sort_heap_short(s, length) ==
  LET at[n \in 0 .. length] ==
        IF n = 0 THEN s
        ELSE IF n < length - 1
             THEN sift_down(ap_swap(at[n - 1], length - n, 0), 0, length - n - 1)
             ELSE at[n - 1]
  IN at[length]

\* The loop in heapsort, for last = length - n.
sort_heap(s, length) ==
  LET at[n \in 0 .. length] ==
        IF n = 0 THEN s
        ELSE IF n < length
             THEN sift_down(ap_swap(at[n - 1], length - n, 0), 0, length - n - 1)
             ELSE at[n - 1]
  IN at[length]

heapsort(s, length) ==
  sort_heap(heapify(s, length \div 2 - 1, length - 1), length)

(***************************************************************************)
(* A scan.                                                                 *)
(***************************************************************************)
find_ap_in_cache(s, bssid) ==
  {i \in ApIndex : i < ap_cache_count /\ Active(s[i]) /\ s[i].bssid = bssid}

\* The first index whose entry is not in use, CACHED_AP_COUNT if there is none.
FirstInactive(s) ==
  CHOOSE i \in 0 .. ApSlots :
    /\ i < ApSlots => ~ Active(s[i])
    /\ \A j \in 0 .. i - 1 : Active(s[j])

update_ap_in_cache(s, report, i) ==
  [s EXCEPT ![i] = [@ EXCEPT !.age = 1, !.rssi = report.rssi]]

add_ap_to_cache(s, report) ==
  LET i == FirstInactive(s) IN
  IF i = ApSlots THEN s
  ELSE [s EXCEPT ![i] = [bssid |-> report.bssid, age |-> 1, rssi |-> report.rssi,
                         failed |-> 0, profile |-> report.bssid \in apProfiles]]

\* One result of the scan.
Record(s, report) ==
  LET i == find_ap_in_cache(s, report.bssid) IN
  IF i # {} THEN update_ap_in_cache(s, report, CHOOSE j \in i : TRUE)
  ELSE add_ap_to_cache(s, report)

Reported(s, reports) ==
  LET at[n \in 0 .. Len(reports)] ==
        IF n = 0 THEN s ELSE Record(at[n - 1], reports[n])
  IN at[Len(reports)]

\* Every entry in use is one scan older, found or not.  Past ApMaxAge all
\* ages behave alike, so the model counts no further.
Aged(s) ==
  [i \in ApIndex |->
     IF i < ap_cache_count /\ s[i].age <= ApMaxAge
     THEN [s[i] EXCEPT !.age = @ + 1] ELSE s[i]]

\* The pass over the entries in use that drops those not seen for too long.
DropOld(s, n) ==
  [i \in ApIndex |-> IF i < n /\ s[i].age > ApMaxAge THEN Inactive ELSE s[i]]

\* What WIFI_Scan may report: every access point at most once, in any order.
Scans ==
  {reports \in UNION {[1 .. n -> [bssid : ApBssids, rssi : ApStrengths]] : n \in 0 .. ApScanMax} :
     \A i, j \in DOMAIN reports : i # j => reports[i].bssid # reports[j].bssid}

scan_networks(reports) ==
  LET found  == Reported(Aged(sorted_aps), reports)
      n      == FirstInactive(found)
      sorted == heapsort(DropOld(found, n), n)
  IN /\ sorted_aps' = sorted
     /\ ap_cache_count' = FirstInactive(sorted)
     /\ apFresh' = TRUE
     /\ UNCHANGED apProfiles

\* A scan that fails has aged the entries all the same.
scan_networks_failed ==
  /\ sorted_aps' = Aged(sorted_aps)
  /\ apFresh' = FALSE
  /\ UNCHANGED <<ap_cache_count, apProfiles>>

(***************************************************************************)
(* Using the cache.                                                        *)
(***************************************************************************)
connect_to_network(i, connected) ==
  /\ i < ap_cache_count
  /\ sorted_aps[i].profile
  /\ sorted_aps[i].failed < ApAttempts
  /\ sorted_aps' =
       IF connected THEN [sorted_aps EXCEPT ![i].failed = 0]
       ELSE IF sorted_aps[i].age = 1 THEN [sorted_aps EXCEPT ![i].failed = @ + 1]
       ELSE [sorted_aps EXCEPT ![i].age = ApMaxAge]
  /\ apFresh' = FALSE
  /\ UNCHANGED <<ap_cache_count, apProfiles>>

\* While connected the manager polls the strength of the connected entry.
update_ap_rssi(i, rssi) ==
  /\ i < ap_cache_count
  /\ sorted_aps' = [sorted_aps EXCEPT ![i].rssi = rssi]
  /\ apFresh' = FALSE
  /\ UNCHANGED <<ap_cache_count, apProfiles>>

reset_scan_search_list_and_ap_cache(profiles) ==
  /\ sorted_aps' = [i \in ApIndex |-> Inactive]
  /\ ap_cache_count' = 0
  /\ apProfiles' = profiles
  /\ apFresh' = FALSE

ApInit ==
  /\ sorted_aps = [i \in ApIndex |-> Inactive]
  /\ ap_cache_count = 0
  /\ apProfiles = ApSaved
  /\ apFresh = FALSE

ApNext ==
  \/ \E reports \in Scans : scan_networks(reports)
  \/ scan_networks_failed
  \/ \E i \in ApIndex, ok \in BOOLEAN : connect_to_network(i, ok)
  \/ \E i \in ApIndex, rssi \in ApStrengths : update_ap_rssi(i, rssi)
  \/ \E profiles \in {ApSaved, {}} : reset_scan_search_list_and_ap_cache(profiles)

ApSpec == ApInit /\ [][ApNext]_apVars

(***************************************************************************)
(* Properties.                                                             *)
(***************************************************************************)
\* What find_ap_in_cache, add_ap_to_cache and the xassert at line 263 rely
\* on: the entries in use are exactly the first ap_cache_count ones and no
\* access point is in the cache twice; and after a successful scan they
\* are in descending order of strength, which is the order the manager
\* tries to connect in.
ApCacheOrdered ==
  /\ \A i \in ApIndex : Active(sorted_aps[i]) <=> i < ap_cache_count
  /\ \A i, j \in 0 .. ap_cache_count - 1 :
       i # j => sorted_aps[i].bssid # sorted_aps[j].bssid
  /\ apFresh => \A i, j \in 0 .. ap_cache_count - 1 :
                  i < j => sorted_aps[i].rssi >= sorted_aps[j].rssi
=============================================================================
