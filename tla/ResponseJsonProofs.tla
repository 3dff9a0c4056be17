------------------------- MODULE ResponseJsonProofs -------------------------
(***************************************************************************)
(* What is written as a line is read back as it was: FromJson is a left    *)
(* inverse of ToJson on the responses that a worker, and a collector after *)
(* it, puts together.                                                      *)
(***************************************************************************)
EXTENDS ResponseJson, TLAPS

IsOptional(o) == \A v, w \in o : v = w

IsLogs(logs) == DOMAIN logs = DOMAIN NoLogs /\ logs = [k \in DOMAIN logs |-> logs[k]]

IsConstituents(c) ==
  c = [constituents |-> c.constituents, namedConstituents |-> c.namedConstituents,
       globConstituents |-> c.globConstituents]

(* Without a status there are no lists of what is needed. *)
IsDrv(d) ==
  /\ d = [drvPath |-> d.drvPath, outputs |-> d.outputs, system |-> d.system,
          meta |-> d.meta, inputDrvs |-> d.inputDrvs,
          requiredSystemFeatures |-> d.requiredSystemFeatures,
          constituents |-> d.constituents, cacheStatus |-> d.cacheStatus,
          neededBuilds |-> d.neededBuilds,
          neededSubstitutes |-> d.neededSubstitutes]
  /\ IsOptional(d.meta) /\ IsOptional(d.inputDrvs)
  /\ IsOptional(d.requiredSystemFeatures) /\ IsConstituents(d.constituents)
  /\ d.cacheStatus = "unknown" =>
       d.neededBuilds = <<>> /\ d.neededSubstitutes = <<>>

IsPayload(payload) ==
  \/ /\ payload.type = "attrs"
     /\ payload = [type |-> "attrs", attrs |-> payload.attrs]
  \/ /\ payload.type = "error"
     /\ payload = [type |-> "error", error |-> payload.error,
                   fatal |-> payload.fatal]
  \/ /\ payload.type = "job"
     /\ payload = [type |-> "job", drv |-> payload.drv,
                   extraValue |-> payload.extraValue]
     /\ IsDrv(payload.drv) /\ IsOptional(payload.extraValue)

IsResponse(r) ==
  /\ r = [attrPath |-> r.attrPath, logs |-> r.logs, payload |-> r.payload]
  /\ IsLogs(r.logs) /\ IsPayload(r.payload)

----------------------------------------------------------------------------
LEMMA MergedKeys ==
  ASSUME NEW f, NEW g
  PROVE  /\ DOMAIN (f ++ g) = DOMAIN f \cup DOMAIN g
         /\ \A k \in DOMAIN f : (f ++ g)[k] = f[k]
         /\ \A k \in DOMAIN g : k \notin DOMAIN f => (f ++ g)[k] = g[k]
BY DEF ++

LEMMA KeyThere ==
  ASSUME NEW k, NEW o
  PROVE  /\ DOMAIN Key(k, o) = {x \in {k} : o # {}}
         /\ o # {} => Key(k, o)[k] = CHOOSE v \in o : TRUE
BY DEF Key

(* An optional is read back from an object that has its key, and its value *)
(* there, exactly if it has a value.                                       *)
LEMMA GetKey ==
  ASSUME NEW json, NEW k, NEW o, IsOptional(o),
         k \in DOMAIN json <=> o # {},
         o # {} => json[k] = CHOOSE v \in o : TRUE
  PROVE  Get(json, k) = o
<1>1. CASE o = {}
  BY <1>1 DEF Get
<1>2. CASE o # {}
  <2>1. PICK v \in o : TRUE
    BY <1>2
  <2>2. o = {v} /\ (CHOOSE w \in o : TRUE) = v
    BY <2>1 DEF IsOptional
  <2> QED BY <1>2, <2>2 DEF Get
<1> QED BY <1>1, <1>2

(* The keys of a derivation, and what is there. *)
IsDrvJson(j, d) ==
  /\ DOMAIN j = {"drvPath", "system", "outputs"}
         \cup {x \in {"meta"} : d.meta # {}}
         \cup {x \in {"inputDrvs"} : d.inputDrvs # {}}
         \cup {x \in {"requiredSystemFeatures"} :
                 d.requiredSystemFeatures # {}}
         \cup {"constituents", "namedConstituents", "globConstituents"}
         \cup {x \in {"isCached", "cacheStatus", "neededBuilds",
                      "neededSubstitutes"} : d.cacheStatus # "unknown"}
  /\ j.drvPath = d.drvPath /\ j.system = d.system
  /\ j.outputs = OutputsJson(d.outputs)
  /\ d.meta # {} => j["meta"] = CHOOSE v \in d.meta : TRUE
  /\ d.inputDrvs # {} => j["inputDrvs"] = CHOOSE v \in d.inputDrvs : TRUE
  /\ d.requiredSystemFeatures # {} =>
       j["requiredSystemFeatures"] =
         CHOOSE v \in d.requiredSystemFeatures : TRUE
  /\ \A k \in DOMAIN NoConstituents : j[k] = d.constituents[k]
  /\ d.cacheStatus # "unknown" =>
       /\ j["cacheStatus"] = d.cacheStatus
       /\ j["neededBuilds"] = d.neededBuilds
       /\ j["neededSubstitutes"] = d.neededSubstitutes

LEMMA DrvKeys ==
  ASSUME NEW d, IsDrv(d), NEW j, j = DrvToJson(d)
  PROVE  IsDrvJson(j, d)
<1> DEFINE j0 == [drvPath |-> d.drvPath, system |-> d.system,
                  outputs |-> OutputsJson(d.outputs)]
           m == Key("meta", d.meta)
           i == Key("inputDrvs", d.inputDrvs)
           f == Key("requiredSystemFeatures", d.requiredSystemFeatures)
           c == ConstituentsJson(d.constituents)
           s == CacheKeys(d)
           j1 == j0 ++ m
           j2 == j1 ++ i
           j3 == j2 ++ f
           j4 == j3 ++ c
           j5 == j4 ++ s
<1>1. j = j5
  BY DEF DrvToJson
<1>2. /\ DOMAIN j0 = {"drvPath", "system", "outputs"}
      /\ j0.drvPath = d.drvPath /\ j0.system = d.system
      /\ j0.outputs = OutputsJson(d.outputs)
  OBVIOUS
<1>3. /\ DOMAIN m = {x \in {"meta"} : d.meta # {}}
      /\ d.meta # {} => m["meta"] = CHOOSE v \in d.meta : TRUE
  BY KeyThere
<1>4. /\ DOMAIN i = {x \in {"inputDrvs"} : d.inputDrvs # {}}
      /\ d.inputDrvs # {} => i["inputDrvs"] = CHOOSE v \in d.inputDrvs : TRUE
  BY KeyThere
<1>5. /\ DOMAIN f = {x \in {"requiredSystemFeatures"} :
                       d.requiredSystemFeatures # {}}
      /\ d.requiredSystemFeatures # {} =>
           f["requiredSystemFeatures"] =
             CHOOSE v \in d.requiredSystemFeatures : TRUE
  BY KeyThere
<1>6. /\ DOMAIN c = {"constituents", "namedConstituents", "globConstituents"}
      /\ \A k \in DOMAIN NoConstituents : c[k] = d.constituents[k]
      /\ DOMAIN NoConstituents =
           {"constituents", "namedConstituents", "globConstituents"}
  BY DEF ConstituentsJson, NoConstituents
<1>7. /\ DOMAIN s = {x \in {"isCached", "cacheStatus", "neededBuilds",
                            "neededSubstitutes"} : d.cacheStatus # "unknown"}
      /\ d.cacheStatus # "unknown" =>
           /\ s["cacheStatus"] = d.cacheStatus
           /\ s["neededBuilds"] = d.neededBuilds
           /\ s["neededSubstitutes"] = d.neededSubstitutes
  <2>1. CASE d.cacheStatus = "unknown"
    BY <2>1 DEF CacheKeys
  <2>2. CASE d.cacheStatus # "unknown"
    <3>1. s = [isCached |-> d.cacheStatus \in {"cached", "local"},
               cacheStatus |-> d.cacheStatus,
               neededBuilds |-> d.neededBuilds,
               neededSubstitutes |-> d.neededSubstitutes]
      BY <2>2 DEF CacheKeys
    <3> HIDE DEF s
    <3> QED BY <3>1, <2>2
  <2> QED BY <2>1, <2>2
<1> HIDE DEF j0, m, i, f, c, s
<1>8. /\ DOMAIN j1 = DOMAIN j0 \cup DOMAIN m
      /\ \A k \in DOMAIN j0 : j1[k] = j0[k]
      /\ \A k \in DOMAIN m : k \notin DOMAIN j0 => j1[k] = m[k]
  BY MergedKeys
<1> HIDE DEF j1
<1>9. /\ DOMAIN j2 = DOMAIN j1 \cup DOMAIN i
      /\ \A k \in DOMAIN j1 : j2[k] = j1[k]
      /\ \A k \in DOMAIN i : k \notin DOMAIN j1 => j2[k] = i[k]
  BY MergedKeys
<1> HIDE DEF j2
<1>10. /\ DOMAIN j3 = DOMAIN j2 \cup DOMAIN f
       /\ \A k \in DOMAIN j2 : j3[k] = j2[k]
       /\ \A k \in DOMAIN f : k \notin DOMAIN j2 => j3[k] = f[k]
  BY MergedKeys
<1> HIDE DEF j3
<1>11. /\ DOMAIN j4 = DOMAIN j3 \cup DOMAIN c
       /\ \A k \in DOMAIN j3 : j4[k] = j3[k]
       /\ \A k \in DOMAIN c : k \notin DOMAIN j3 => j4[k] = c[k]
  BY MergedKeys
<1> HIDE DEF j4
<1>12. /\ DOMAIN j5 = DOMAIN j4 \cup DOMAIN s
       /\ \A k \in DOMAIN j4 : j5[k] = j4[k]
       /\ \A k \in DOMAIN s : k \notin DOMAIN j4 => j5[k] = s[k]
  BY MergedKeys
<1> HIDE DEF j5
<1>13. DOMAIN j5 = {"drvPath", "system", "outputs"}
                \cup {x \in {"meta"} : d.meta # {}}
                \cup {x \in {"inputDrvs"} : d.inputDrvs # {}}
                \cup {x \in {"requiredSystemFeatures"} :
                        d.requiredSystemFeatures # {}}
                \cup {"constituents", "namedConstituents", "globConstituents"}
                \cup {x \in {"isCached", "cacheStatus", "neededBuilds",
                             "neededSubstitutes"} : d.cacheStatus # "unknown"}
  BY <1>2, <1>3, <1>4, <1>5, <1>6, <1>7, <1>8, <1>9, <1>10, <1>11, <1>12
<1>14. j5.drvPath = d.drvPath /\ j5.system = d.system
       /\ j5.outputs = OutputsJson(d.outputs)
  BY <1>2, <1>8, <1>9, <1>10, <1>11, <1>12
<1>15. d.meta # {} => j5["meta"] = CHOOSE v \in d.meta : TRUE
  BY <1>2, <1>3, <1>8, <1>9, <1>10, <1>11, <1>12
<1>16. d.inputDrvs # {} =>
         j5["inputDrvs"] = CHOOSE v \in d.inputDrvs : TRUE
  BY <1>2, <1>3, <1>4, <1>8, <1>9, <1>10, <1>11, <1>12
<1>17. d.requiredSystemFeatures # {} =>
         j5["requiredSystemFeatures"] =
           CHOOSE v \in d.requiredSystemFeatures : TRUE
  BY <1>2, <1>3, <1>4, <1>5, <1>8, <1>9, <1>10, <1>11, <1>12
<1>18. \A k \in DOMAIN NoConstituents : j5[k] = d.constituents[k]
  BY <1>2, <1>3, <1>4, <1>5, <1>6, <1>8, <1>9, <1>10, <1>11, <1>12
<1>19. d.cacheStatus # "unknown" =>
         /\ j5["cacheStatus"] = d.cacheStatus
         /\ j5["neededBuilds"] = d.neededBuilds
         /\ j5["neededSubstitutes"] = d.neededSubstitutes
  BY <1>2, <1>3, <1>4, <1>5, <1>6, <1>7, <1>8, <1>9, <1>10, <1>11, <1>12
<1> QED BY <1>1, <1>13, <1>14, <1>15, <1>16, <1>17, <1>18, <1>19 DEF IsDrvJson

DrvFields == {"drvPath", "system", "outputs", "meta", "inputDrvs",
              "requiredSystemFeatures", "constituents", "namedConstituents",
              "globConstituents", "isCached", "cacheStatus", "neededBuilds",
              "neededSubstitutes"}

(* A derivation is read back from any object that has its fields as they   *)
(* were written, whatever else is in it.                                   *)
LEMMA DrvReadBack ==
  ASSUME NEW d, IsDrv(d), NEW json,
         "outputs" \in DOMAIN json, json.outputs # Null,
         \A k \in DrvFields :
           /\ k \in DOMAIN json <=> k \in DOMAIN DrvToJson(d)
           /\ k \in DOMAIN json => json[k] = DrvToJson(d)[k]
  PROVE  DrvFromJson(json) = d
<1> DEFINE j == DrvToJson(d)
<1>1. IsDrvJson(j, d)
  BY DrvKeys
<1> HIDE DEF j
<1>2. \A k \in DrvFields : /\ k \in DOMAIN json <=> k \in DOMAIN j
                           /\ k \in DOMAIN json => json[k] = j[k]
  BY DEF j
<1>3. json.drvPath = d.drvPath /\ json.system = d.system
  BY <1>1, <1>2 DEF IsDrvJson, DrvFields
<1>4. json.outputs = d.outputs
  <2>1. json.outputs = OutputsJson(d.outputs)
    BY <1>1, <1>2 DEF IsDrvJson, DrvFields
  <2> QED BY <2>1 DEF OutputsJson
<1>5. Get(json, "meta") = d.meta
  <2>1. /\ "meta" \in DOMAIN json <=> d.meta # {}
        /\ d.meta # {} => json["meta"] = CHOOSE v \in d.meta : TRUE
    BY <1>1, <1>2 DEF IsDrvJson, DrvFields
  <2> QED BY <2>1, GetKey DEF IsDrv
<1>6. Get(json, "inputDrvs") = d.inputDrvs
  <2>1. /\ "inputDrvs" \in DOMAIN json <=> d.inputDrvs # {}
        /\ d.inputDrvs # {} =>
             json["inputDrvs"] = CHOOSE v \in d.inputDrvs : TRUE
    BY <1>1, <1>2 DEF IsDrvJson, DrvFields
  <2> QED BY <2>1, GetKey DEF IsDrv
<1>7. FeaturesFromJson(json) = d.requiredSystemFeatures
  <2>1. /\ "requiredSystemFeatures" \in DOMAIN json
             <=> d.requiredSystemFeatures # {}
        /\ d.requiredSystemFeatures # {} =>
             json["requiredSystemFeatures"] =
               CHOOSE v \in d.requiredSystemFeatures : TRUE
    BY <1>1, <1>2 DEF IsDrvJson, DrvFields
  <2> QED BY <2>1, GetKey DEF IsDrv, FeaturesFromJson
<1>8. ConstituentsFromJson(json) = d.constituents
  <2>1. DOMAIN NoConstituents =
          {"constituents", "namedConstituents", "globConstituents"}
    BY DEF NoConstituents
  <2>2. \A k \in DOMAIN NoConstituents :
          GetOr(json, k, NoConstituents[k]) = d.constituents[k]
    BY <1>1, <1>2, <2>1 DEF IsDrvJson, DrvFields, GetOr
  <2>3. d.constituents = [k \in DOMAIN NoConstituents |-> d.constituents[k]]
    <3>1. IsConstituents(d.constituents)
      BY DEF IsDrv
    <3> QED BY <2>1, <3>1 DEF IsConstituents
  <2> QED BY <2>2, <2>3 DEF ConstituentsFromJson
<1>9. GetOr(json, "cacheStatus", "unknown") = d.cacheStatus
  BY <1>1, <1>2 DEF IsDrvJson, GetOr, DrvFields
<1>10. ASSUME d.cacheStatus # "unknown"
       PROVE  /\ GetOr(json, "neededBuilds", <<>>) = d.neededBuilds
              /\ GetOr(json, "neededSubstitutes", <<>>) = d.neededSubstitutes
  BY <1>1, <1>2, <1>10 DEF IsDrvJson, GetOr, DrvFields
<1>11. d.cacheStatus = "unknown" =>
         d.neededBuilds = <<>> /\ d.neededSubstitutes = <<>>
  BY DEF IsDrv
<1> DEFINE Needed(k) == IF d.cacheStatus = "unknown" THEN <<>>
                        ELSE GetOr(json, k, <<>>)
<1>12. /\ Needed("neededBuilds") = d.neededBuilds
       /\ Needed("neededSubstitutes") = d.neededSubstitutes
  BY <1>10, <1>11
<1>13. DrvFromJson(json) =
         [drvPath |-> json.drvPath, system |-> json.system,
          outputs |-> json.outputs,
          meta |-> Get(json, "meta"),
          inputDrvs |-> Get(json, "inputDrvs"),
          requiredSystemFeatures |-> FeaturesFromJson(json),
          constituents |-> ConstituentsFromJson(json),
          cacheStatus |-> d.cacheStatus,
          neededBuilds |-> Needed("neededBuilds"),
          neededSubstitutes |-> Needed("neededSubstitutes")]
  BY <1>9 DEF DrvFromJson
<1> HIDE DEF Needed
<1>14. DrvFromJson(json) =
         [drvPath |-> d.drvPath, outputs |-> d.outputs, system |-> d.system,
          meta |-> d.meta, inputDrvs |-> d.inputDrvs,
          requiredSystemFeatures |-> d.requiredSystemFeatures,
          constituents |-> d.constituents, cacheStatus |-> d.cacheStatus,
          neededBuilds |-> d.neededBuilds,
          neededSubstitutes |-> d.neededSubstitutes]
  BY <1>3, <1>4, <1>5, <1>6, <1>7, <1>8, <1>12, <1>13
<1> QED BY <1>14 DEF IsDrv

(* The keys of a line: where it was found, the messages, and the payload.  *)
LEMMA LineKeys ==
  ASSUME NEW r, IsResponse(r)
  PROVE  LET json == ToJson(r)
             payload == PayloadJson(r.payload)
             said == {k \in DOMAIN NoLogs : r.logs[k] # <<>>}
         IN  /\ DOMAIN json = {"attrPath"} \cup said \cup DOMAIN payload
             /\ json.attrPath = r.attrPath
             /\ \A k \in said : json[k] = r.logs[k]
             /\ \A k \in DOMAIN payload :
                  k \notin {"attrPath", "warnings", "traces"} =>
                    json[k] = payload[k]
             /\ DOMAIN NoLogs = {"warnings", "traces"}
<1> DEFINE json == ToJson(r)
           payload == PayloadJson(r.payload)
           said == {k \in DOMAIN NoLogs : r.logs[k] # <<>>}
           name == [attrPath |-> r.attrPath]
           logs == LogKeys(r.logs)
           head == name ++ logs
<1>1. json = head ++ payload
  BY DEF ToJson
<1>2. DOMAIN NoLogs = {"warnings", "traces"}
  BY DEF NoLogs
<1>3. DOMAIN logs = said /\ \A k \in said : logs[k] = r.logs[k]
  BY DEF LogKeys
<1>4. DOMAIN name = {"attrPath"} /\ name.attrPath = r.attrPath
  OBVIOUS
<1> HIDE DEF json, payload, name, logs
<1>5. /\ DOMAIN head = DOMAIN name \cup DOMAIN logs
      /\ \A k \in DOMAIN name : head[k] = name[k]
      /\ \A k \in DOMAIN logs : k \notin DOMAIN name => head[k] = logs[k]
  BY MergedKeys
<1> HIDE DEF head
<1>6. /\ DOMAIN json = DOMAIN head \cup DOMAIN payload
      /\ \A k \in DOMAIN head : json[k] = head[k]
      /\ \A k \in DOMAIN payload : k \notin DOMAIN head => json[k] = payload[k]
  <2>1. LET both == head ++ payload
        IN  /\ DOMAIN both = DOMAIN head \cup DOMAIN payload
            /\ \A k \in DOMAIN head : both[k] = head[k]
            /\ \A k \in DOMAIN payload :
                 k \notin DOMAIN head => both[k] = payload[k]
    BY MergedKeys
  <2> QED BY <1>1, <2>1
<1>7. \A k \in said : k \in {"warnings", "traces"}
  BY <1>2
<1> HIDE DEF said
<1>8. DOMAIN json = {"attrPath"} \cup said \cup DOMAIN payload
  BY <1>3, <1>4, <1>5, <1>6
<1>9. json.attrPath = r.attrPath
  BY <1>4, <1>5, <1>6
<1>10. \A k \in said : json[k] = r.logs[k]
  BY <1>3, <1>4, <1>5, <1>6, <1>7
<1>11. \A k \in DOMAIN payload :
         k \notin {"attrPath", "warnings", "traces"} => json[k] = payload[k]
  BY <1>3, <1>4, <1>5, <1>6, <1>7
<1> QED BY <1>2, <1>8, <1>9, <1>10, <1>11 DEF json, payload, said

(* The fields of each of the three variants. *)
LEMMA PayloadKeys ==
  ASSUME NEW payload, IsPayload(payload)
  PROVE  LET json == PayloadJson(payload)
         IN  /\ payload.type = "attrs" =>
                  DOMAIN json = {"attrs"} /\ json.attrs = payload.attrs
             /\ payload.type = "error" =>
                  /\ DOMAIN json = {"error", "fatal"}
                  /\ json.error = payload.error /\ json.fatal = payload.fatal
             /\ payload.type = "job" =>
                  LET drv == DrvToJson(payload.drv)
                  IN  /\ DOMAIN json = DOMAIN drv \cup
                           {x \in {"extraValue"} : payload.extraValue # {}}
                      /\ \A k \in DOMAIN drv : json[k] = drv[k]
                      /\ DOMAIN drv \subseteq DrvFields
                      /\ {"drvPath", "outputs"} \subseteq DOMAIN drv
                      /\ payload.extraValue # {} => json["extraValue"] =
                           CHOOSE v \in payload.extraValue : TRUE
<1> DEFINE json == PayloadJson(payload)
<1>1. ASSUME payload.type = "attrs"
      PROVE  DOMAIN json = {"attrs"} /\ json.attrs = payload.attrs
  <2>1. json = [attrs |-> payload.attrs]
    BY <1>1 DEF PayloadJson
  <2> HIDE DEF json
  <2> QED BY <2>1
<1>2. ASSUME payload.type = "error"
      PROVE  /\ DOMAIN json = {"error", "fatal"}
             /\ json.error = payload.error /\ json.fatal = payload.fatal
  <2>1. json = [error |-> payload.error, fatal |-> payload.fatal]
    BY <1>2 DEF PayloadJson
  <2> HIDE DEF json
  <2> QED BY <2>1
<1>3. ASSUME payload.type = "job"
      PROVE  LET drv == DrvToJson(payload.drv)
             IN  /\ DOMAIN json = DOMAIN drv \cup
                      {x \in {"extraValue"} : payload.extraValue # {}}
                 /\ \A k \in DOMAIN drv : json[k] = drv[k]
                 /\ DOMAIN drv \subseteq DrvFields
                 /\ {"drvPath", "outputs"} \subseteq DOMAIN drv
                 /\ payload.extraValue # {} => json["extraValue"] =
                      CHOOSE v \in payload.extraValue : TRUE
  <2> DEFINE drv == DrvToJson(payload.drv)
             extra == Key("extraValue", payload.extraValue)
  <2>1. IsDrv(payload.drv)
    BY <1>3 DEF IsPayload
  <2>2. json = drv ++ extra
    BY <1>3 DEF PayloadJson
  <2>3. DOMAIN drv \subseteq DrvFields /\ {"drvPath", "outputs"} \subseteq DOMAIN drv
    <3>1. IsDrvJson(drv, payload.drv)
      BY <2>1, DrvKeys
    <3> HIDE DEF drv
    <3> QED BY <3>1 DEF IsDrvJson, DrvFields
  <2>4. /\ DOMAIN extra = {x \in {"extraValue"} : payload.extraValue # {}}
        /\ payload.extraValue # {} =>
             extra["extraValue"] = CHOOSE v \in payload.extraValue : TRUE
    BY KeyThere
  <2> HIDE DEF json, drv, extra
  <2>5. /\ DOMAIN json = DOMAIN drv \cup DOMAIN extra
        /\ \A k \in DOMAIN drv : json[k] = drv[k]
        /\ \A k \in DOMAIN extra : k \notin DOMAIN drv => json[k] = extra[k]
    <3>1. LET both == drv ++ extra
          IN  /\ DOMAIN both = DOMAIN drv \cup DOMAIN extra
              /\ \A k \in DOMAIN drv : both[k] = drv[k]
              /\ \A k \in DOMAIN extra :
                   k \notin DOMAIN drv => both[k] = extra[k]
      BY MergedKeys
    <3> QED BY <2>2, <3>1
  <2>6. "extraValue" \notin DOMAIN drv
    BY <2>3 DEF DrvFields
  <2>7. payload.extraValue # {} =>
          json["extraValue"] = CHOOSE v \in payload.extraValue : TRUE
    BY <2>4, <2>5, <2>6
  <2> QED BY <2>3, <2>4, <2>5, <2>7 DEF drv
<1> QED BY <1>1, <1>2, <1>3

HasFieldsOf(json, drv) ==
  \A k \in DrvFields : /\ k \in DOMAIN json <=> k \in DOMAIN drv
                       /\ k \in DOMAIN json => json[k] = drv[k]

(* The line of a job has the fields of its derivation. *)
LEMMA DrvInLine ==
  ASSUME NEW r, IsResponse(r), r.payload.type = "job",
         NEW json, json = ToJson(r), NEW drv, drv = DrvToJson(r.payload.drv)
  PROVE  /\ HasFieldsOf(json, drv)
         /\ DOMAIN json = {"attrPath"} \cup DOMAIN drv
               \cup {k \in DOMAIN NoLogs : r.logs[k] # <<>>}
               \cup {x \in {"extraValue"} : r.payload.extraValue # {}}
         /\ "drvPath" \in DOMAIN drv /\ "outputs" \in DOMAIN drv
         /\ DOMAIN drv \subseteq DrvFields
<1> DEFINE payload == PayloadJson(r.payload)
           said == {k \in DOMAIN NoLogs : r.logs[k] # <<>>}
<1>1. /\ DOMAIN json = {"attrPath"} \cup said \cup DOMAIN payload
      /\ \A k \in DOMAIN payload :
           k \notin {"attrPath", "warnings", "traces"} => json[k] = payload[k]
      /\ DOMAIN NoLogs = {"warnings", "traces"}
  BY LineKeys
<1>2. IsPayload(r.payload)
  BY DEF IsResponse
<1>3. LET d == DrvToJson(r.payload.drv)
      IN  /\ DOMAIN payload = DOMAIN d \cup
               {x \in {"extraValue"} : r.payload.extraValue # {}}
          /\ \A k \in DOMAIN d : payload[k] = d[k]
          /\ DOMAIN d \subseteq DrvFields
          /\ {"drvPath", "outputs"} \subseteq DOMAIN d
  BY <1>2, PayloadKeys
<1>4. \A k \in said : k \in {"warnings", "traces"}
  BY <1>1
<1> HIDE DEF payload, said
<1>5. /\ DOMAIN payload = DOMAIN drv \cup
           {x \in {"extraValue"} : r.payload.extraValue # {}}
      /\ \A k \in DOMAIN drv : payload[k] = drv[k]
      /\ DOMAIN drv \subseteq DrvFields
      /\ "drvPath" \in DOMAIN drv /\ "outputs" \in DOMAIN drv
  BY <1>3
<1>6. HasFieldsOf(json, drv)
  BY <1>1, <1>4, <1>5 DEF DrvFields, HasFieldsOf
<1>7. DOMAIN json = {"attrPath"} \cup DOMAIN drv \cup said
        \cup {x \in {"extraValue"} : r.payload.extraValue # {}}
  BY <1>1, <1>5
<1> QED BY <1>5, <1>6, <1>7 DEF said

(* A line that the collector accepts is read as what was written           *)
(* (to_json and from_json of Response).                                    *)
THEOREM ReadAsWritten ==
  ASSUME NEW r, IsResponse(r), Parses(ToJson(r))
  PROVE  FromJson(ToJson(r)) = r
<1> DEFINE json == ToJson(r)
           payload == PayloadJson(r.payload)
           said == {k \in DOMAIN NoLogs : r.logs[k] # <<>>}
<1>1. /\ DOMAIN json = {"attrPath"} \cup said \cup DOMAIN payload
      /\ json.attrPath = r.attrPath
      /\ \A k \in said : json[k] = r.logs[k]
      /\ \A k \in DOMAIN payload :
           k \notin {"attrPath", "warnings", "traces"} => json[k] = payload[k]
      /\ DOMAIN NoLogs = {"warnings", "traces"}
  BY LineKeys
<1>2. IsPayload(r.payload) /\ IsLogs(r.logs)
  BY DEF IsResponse
<1>3. /\ r.payload.type = "attrs" =>
           DOMAIN payload = {"attrs"} /\ payload.attrs = r.payload.attrs
      /\ r.payload.type = "error" =>
           /\ DOMAIN payload = {"error", "fatal"}
           /\ payload.error = r.payload.error
           /\ payload.fatal = r.payload.fatal
      /\ r.payload.type = "job" =>
           LET drv == DrvToJson(r.payload.drv)
           IN  /\ DOMAIN payload = DOMAIN drv \cup
                    {x \in {"extraValue"} : r.payload.extraValue # {}}
               /\ \A k \in DOMAIN drv : payload[k] = drv[k]
               /\ DOMAIN drv \subseteq DrvFields
               /\ {"drvPath", "outputs"} \subseteq DOMAIN drv
               /\ r.payload.extraValue # {} => payload["extraValue"] =
                    CHOOSE v \in r.payload.extraValue : TRUE
  BY <1>2, PayloadKeys
<1>4. Parses(json)
  OBVIOUS
<1>5. \A k \in said : k \in {"warnings", "traces"} /\ r.logs[k] # <<>>
  BY <1>1
<1>6. \A k \in DOMAIN NoLogs : k \notin said => r.logs[k] = <<>>
  OBVIOUS
<1> HIDE DEF json, payload, said
<1>7. DOMAIN payload \cap {"attrPath", "warnings", "traces"} = {}
  BY <1>2, <1>3 DEF IsPayload, DrvFields
<1>8. [k \in DOMAIN NoLogs |-> GetOr(json, k, <<>>)] = r.logs
  <2>1. \A k \in DOMAIN NoLogs : GetOr(json, k, <<>>) = r.logs[k]
    BY <1>1, <1>6, <1>7 DEF GetOr
  <2>2. r.logs = [k \in DOMAIN NoLogs |-> r.logs[k]]
    BY <1>2 DEF IsLogs
  <2> QED BY <2>1, <2>2
<1>9. PayloadFromJson(json) = r.payload
  <2>1. CASE r.payload.type = "attrs"
    <3>1. "attrs" \in DOMAIN json /\ json.attrs = r.payload.attrs
      BY <1>1, <1>3, <2>1
    <3>2. r.payload = [type |-> "attrs", attrs |-> r.payload.attrs]
      BY <1>2, <2>1 DEF IsPayload
    <3> QED BY <3>1, <3>2 DEF PayloadFromJson
  <2>2. CASE r.payload.type = "error"
    <3>1. /\ "attrs" \notin DOMAIN json /\ "error" \in DOMAIN json
          /\ "fatal" \in DOMAIN json
          /\ json.error = r.payload.error /\ json.fatal = r.payload.fatal
      BY <1>1, <1>3, <1>5, <2>2
    <3>2. r.payload = [type |-> "error", error |-> r.payload.error,
                       fatal |-> r.payload.fatal]
      BY <1>2, <2>2 DEF IsPayload
    <3> QED BY <3>1, <3>2 DEF PayloadFromJson, GetOr
  <2>3. CASE r.payload.type = "job"
    <3> DEFINE drv == DrvToJson(r.payload.drv)
    <3>1. /\ r.payload = [type |-> "job", drv |-> r.payload.drv,
                          extraValue |-> r.payload.extraValue]
          /\ IsDrv(r.payload.drv) /\ IsOptional(r.payload.extraValue)
      BY <1>2, <2>3 DEF IsPayload
    <3>2. /\ DOMAIN payload = DOMAIN drv \cup
               {x \in {"extraValue"} : r.payload.extraValue # {}}
          /\ \A k \in DOMAIN drv : payload[k] = drv[k]
          /\ DOMAIN drv \subseteq DrvFields
          /\ {"drvPath", "outputs"} \subseteq DOMAIN drv
          /\ r.payload.extraValue # {} => payload["extraValue"] =
               CHOOSE v \in r.payload.extraValue : TRUE
      BY <1>3, <2>3
    <3> HIDE DEF drv
    <3>3. "attrs" \notin DOMAIN json /\ "error" \notin DOMAIN json
      BY <1>1, <1>5, <3>2 DEF DrvFields
    <3>4. \A k \in DrvFields : /\ k \in DOMAIN json <=> k \in DOMAIN drv
                               /\ k \in DOMAIN json => json[k] = drv[k]
      BY <1>1, <1>5, <3>2 DEF DrvFields
    <3>5. "outputs" \in DOMAIN json /\ json.outputs # Null
      <4>1. "outputs" \in DOMAIN json
        BY <1>1, <3>2
      <4> QED BY <1>4, <3>3, <4>1 DEF Parses
    <3>6. DrvFromJson(json) = r.payload.drv
      BY <3>1, <3>4, <3>5, DrvReadBack DEF drv
    <3>7. /\ "extraValue" \in DOMAIN json <=> r.payload.extraValue # {}
          /\ r.payload.extraValue # {} => json["extraValue"] =
               CHOOSE v \in r.payload.extraValue : TRUE
      BY <1>1, <1>5, <3>2 DEF DrvFields
    <3>8. Get(json, "extraValue") = r.payload.extraValue
      BY <3>1, <3>7, GetKey
    <3> QED BY <3>1, <3>3, <3>6, <3>8 DEF PayloadFromJson
  <2> QED BY <1>2, <2>1, <2>2, <2>3 DEF IsPayload
<1>10. FromJson(json) = [attrPath |-> r.attrPath, logs |-> r.logs,
                         payload |-> r.payload]
  BY <1>1, <1>8, <1>9 DEF FromJson
<1> QED BY <1>10 DEF IsResponse, json
=============================================================================
