----------------------------- MODULE MCVesselPath -----------------------------
(* Values for model checking VesselPath: three ships share their coarse cell   *)
(* (a ship's position, static data, and a position out of time order among     *)
(* them), so that a window fills a stream beyond its limits.                   *)
EXTENDS VesselPath

CONSTANTS s1, s2, s3, nw, ne, north, noTime

Message(type, mmsi, time, meta, report, imo) ==
  [type |-> type, mmsi |-> mmsi, time |-> time, meta |-> meta, report |-> report, imo |-> imo]

MCMessages == {
  Message("PositionReport", s1, 3, nw, nw, 0),
  Message("StandardClassBPositionReport", s1, 1, nw, ne, 0),
  Message("ShipStaticData", s1, 2, nw, Nowhere, 7),
  Message("PositionReport", s2, 1, nw, nw, 0),
  Message("PositionReport", s3, 1, ne, ne, 0),
  Message("PositionReport", s3, 2, ne, Nowhere, 0),
  Message("PositionReport", s2, noTime, nw, nw, 0),
  Message("PositionReport", s2, 0, nw, nw, 0),
  Message("BaseStationReport", s2, 1, nw, nw, 0)}

MCEvents    == UNION {ParseMessage(m) : m \in MCMessages}
MCAsset     == [e \in MCEvents |-> e.AssetID]
MCTimestamp == [e \in MCEvents |-> e.Timestamp]
MCStreams   == [e \in MCEvents |-> <<north, e.H3Cell>>]
MCWire      == [e \in MCEvents |-> IF e.IMONumber # 0 THEN 9 ELSE IF e.AssetID = s3 THEN 3 ELSE 2]
MCEscaped   == [e \in MCEvents |-> MCWire[e] + 2]
=============================================================================
