--------------------------------- MODULE Access ---------------------------------
(***************************************************************************)
(* Who may enter: accounts and sessions (Accounts), and the throttle of     *)
(* failed logins (LoginThrottle).                                          *)
(*                                                                         *)
(* The two touch no state of each other here.  A behaviour is one of        *)
(* theirs, as focus says, while the rest stays as it began.                 *)
(***************************************************************************)
EXTENDS Accounts

CONSTANTS Names, Peers, Proxies, Logins,                                    \* LoginThrottle
          AccountLimit, IPLimit, AccountWindow, IPWindow, BlockDuration,
          FailureRetention, BlockRetention, MaxLogin, MaxMinute

VARIABLES focus,
          failures, blocks, recorded, logins, minute                         \* LoginThrottle

throttling == <<failures, blocks, recorded, logins, minute>>

T == INSTANCE LoginThrottle WITH
       Accounts <- Names, Requests <- Logins, MaxTime <- MaxMinute, now <- minute

ASSUME AccessAssumption == T!ThrottleAssumption

AllInit ==
  /\ focus \in {"accounts", "throttle"}
  /\ Init /\ T!Init

all == <<focus, vars, throttling>>

AllNext ==
  \/ focus = "accounts" /\ Next /\ UNCHANGED <<focus, throttling>>
  \/ focus = "throttle" /\ T!Next /\ UNCHANGED <<focus, vars>>

AllSpec == AllInit /\ [][AllNext]_all

-----------------------------------------------------------------------------
(* The types of all, and the properties of the components together.        *)
AllTypesOK == TypeOK /\ T!TypeOK

(* No window holds more failures of a key than its limit, and the clean-up  *)
(* deletes none that still counts; they count under the own address of the  *)
(* client. (RecordFailure, DeleteStaleFailures, resolveClientIP.)           *)
FailuresCounted == T!FailuresWithinLimit /\ T!CleanupUnseen /\ T!AddressNotChosen
===================================================================================
