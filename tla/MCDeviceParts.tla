--------------------------- MODULE MCDeviceParts ---------------------------
(***************************************************************************)
(* The parts of the device that turn inputs into reports and charge the    *)
(* battery, one at a time: Init chooses a part, and that part alone takes  *)
(* steps.  They share no state that any of their modules has, so nothing   *)
(* is lost, and their state spaces add up instead of multiplying.          *)
(***************************************************************************)
EXTENDS Charging, ActionCache, ActionReports, ReportLookup, UsbHost, ReportParser,
        FieldValue, TLC

VARIABLE part

partVars == << part, chargingVars, cacheVars, reportVars, lookupVars, usbVars,
               parserVars, fieldVars >>

\* A keyboard has one interface without report ids; a combo has two, with them; and a
\* gamepad has an id that the lookup table has no entry for.
MCDeclared ==
  [keyboard |-> (0 :> << >>), combo |-> (0 :> << 1 >> @@ 1 :> << 1, 2 >>),
   gamepad |-> (0 :> << 1, 3 >>)]

PartsInit ==
  /\ part \in {"charging", "cache", "reports", "lookup", "usb", "parser", "field"}
  /\ ChargingInit
  /\ part # "charging" => ~(vin \/ allowSlow \/ neverWired \/ disableWarn)
  /\ FieldInit
  /\ part # "field" => bitOffset + bitSize = 0 /\ \A i \in DOMAIN report : report[i] = 0
  /\ CacheInit /\ ReportInit /\ LookupInit /\ UsbInit /\ ParserInit

\* Only part p moves.
Parked(p) ==
  /\ part = p /\ UNCHANGED part
  /\ p # "charging" => UNCHANGED chargingVars
  /\ p # "cache" => UNCHANGED cacheVars
  /\ p # "reports" => UNCHANGED reportVars
  /\ p # "lookup" => UNCHANGED lookupVars
  /\ p # "usb" => UNCHANGED usbVars
  /\ p # "parser" => UNCHANGED parserVars
  /\ p # "field" => UNCHANGED fieldVars

PartsNext ==
  \/ Parked("charging") /\ ChargingNext
  \/ Parked("cache") /\ CacheNext
  \/ Parked("reports") /\ ReportNext
  \/ Parked("lookup") /\ LookupNext
  \/ Parked("usb") /\ UsbNext
  \/ Parked("parser") /\ ParserNext
  \/ Parked("field") /\ FieldNext

PartsSpec == PartsInit /\ [][PartsNext]_partVars

\* Every variable of every part has its type.
PartsTypeOK ==
  /\ ChargingTypeOK /\ CacheTypeOK /\ ReportTypeOK /\ LookupTypeOK
  /\ UsbTypeOK /\ ParserTypeOK /\ FieldTypeOK
=============================================================================
