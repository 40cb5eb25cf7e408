------------------------------- MODULE MCAccess -------------------------------
(***************************************************************************)
(* A small instance of Access: a customer, Karlo's own company and one     *)
(* that does not exist yet; two products whose registries have a feature   *)
(* of the same name, and one feature that belongs to neither.              *)
(***************************************************************************)
EXTENDS Access, TLC

CONSTANTS tms, fms, dashboard, telemetry, trip, live, acme, karlo, late,
          ann, bob, admin, driver, clerk, staff, spare

\* Both products sell a dashboard; the fms key is gated by what neither owns.
Registry == [s \in {tms, fms, Shared} |->
                IF s = Shared THEN {telemetry} ELSE {dashboard, telemetry}]
Products == [k \in {trip, live} |-> IF k = trip THEN tms ELSE fms]
Gates == [k \in {trip, live} |-> IF k = trip THEN dashboard ELSE telemetry]

\* The customer holds tms by default and the shared feature by purchase.
Modes == [c \in {acme, karlo, late} |-> [s \in {tms, fms, Shared} |->
             IF c = acme /\ s = tms THEN "revoke" ELSE "grant"]]
Sold == {<<acme, tms, dashboard>>, <<acme, Shared, telemetry>>}
Starting == {<<tms, dashboard>>}
Terms == {[from |-> 0, until |-> 0], [from |-> 0, until |-> LastDay]}

\* The driver role was made before the app needed its key.
FirstRoles == [x \in {admin, driver, clerk, staff, spare} |->
    CASE x = admin  -> [company |-> acme, name |-> "Other", system |-> TRUE,
                        all |-> TRUE, keys |-> {}]
      [] x = driver -> [company |-> acme, name |-> "Driver", system |-> TRUE,
                        all |-> FALSE, keys |-> {live}]
      [] x = clerk  -> [company |-> acme, name |-> "Other", system |-> FALSE,
                        all |-> FALSE, keys |-> {trip, live}]
      [] x = staff  -> [company |-> karlo, name |-> "Other", system |-> TRUE,
                        all |-> TRUE, keys |-> {}]
      [] OTHER      -> [company |-> NoCompany, name |-> "Other", system |-> FALSE,
                        all |-> FALSE, keys |-> {}]]

Blank == [p \in {tms, fms} |-> [state |-> "none", keys |-> {}]]
TripToo == [Blank EXCEPT ![tms] = [state |-> "on", keys |-> {trip}]]

FirstUsers == [u \in {ann, bob} |->
    [exists |-> u = ann, company |-> IF u = ann THEN acme ELSE NoCompany,
     role |-> IF u = ann THEN driver ELSE NoRole,
     extras |-> IF u = ann THEN TripToo ELSE Blank]]

Requests == Permutations(Request)
=============================================================================
