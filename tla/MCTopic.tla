------------------------------ MODULE MCTopic ------------------------------
(***************************************************************************)
(* Small instances of Topic: one dedicated attribute, one broker key that  *)
(* only the map can set, one legacy attribute.                             *)
(***************************************************************************)
EXTENDS Topic

CONSTANTS v1, v2

Setting(retention, map, semantic) ==
  [a \in Attr |-> IF a = "config" THEN map
                  ELSE IF a \in Dedicated THEN retention ELSE semantic]

MapOf(K) == [k \in K |-> v1]

(* Every way to configure the three attributes, unknown values included.   *)
AllConfigs ==
  [parts : Partitions,
   set   : {Setting(d, m, s) :
              d \in {Null, Unknown, v1, v2},
              m \in {Null, Unknown, MapOf(Keys), MapOf(OtherKeys)},
              s \in {Null, v1}}]

(* A few of them, for the runs that explore the network in depth.          *)
FewConfigs ==
  [parts : Partitions,
   set   : {Setting(v1, Null, Null), Setting(Null, MapOf(OtherKeys), Null),
            Setting(Null, Null, Null), Setting(v1, Null, v1)}]

FewLegacy == {NoSettings, Setting(v2, MapOf({}), v1)}
============================================================================
