---------------------------- MODULE ResponseJson ----------------------------
(***************************************************************************)
(* The line of a response: to_json and from_json of Response (response.cc), *)
(* Drv and Constituents (drv.cc).  A worker writes it, the collector reads *)
(* it, adds the cache status and prints it with the same functions.        *)
(*                                                                         *)
(* A JSON object is a function on its keys; a std::optional is a set with  *)
(* at most one member.  attr (a function of attrPath), name and storeDir   *)
(* (treated like system) and stats (measurements) are left out.            *)
(***************************************************************************)
EXTENDS Sequences, FiniteSets

CONSTANT Null      \* JSON null

NoLogs == [warnings |-> <<>>, traces |-> <<>>]

NoConstituents ==
  [constituents |-> <<>>, namedConstituents |-> <<>>, globConstituents |-> FALSE]

(* What fromPackageInfo starts with. *)
EmptyDrv(drvPath, outputs) ==
  [drvPath |-> drvPath, outputs |-> outputs, system |-> "",
   meta |-> {}, inputDrvs |-> {}, requiredSystemFeatures |-> {},
   constituents |-> NoConstituents,
   cacheStatus |-> "unknown", neededBuilds |-> <<>>, neededSubstitutes |-> <<>>]

(* An object with the keys of both. *)
f ++ g == [k \in DOMAIN f \cup DOMAIN g |-> IF k \in DOMAIN f THEN f[k] ELSE g[k]]

(* A key that is there if the optional has a value, and back. *)
Key(k, optional) ==
  [x \in {k : v \in optional} |-> CHOOSE v \in optional : TRUE]
Get(json, k) == {json[x] : x \in {k} \cap DOMAIN json}
GetOr(json, k, default) == IF k \in DOMAIN json THEN json[k] ELSE default

(* A json that nothing was assigned to is null, not an empty object. *)
OutputsJson(outputs) == IF DOMAIN outputs = {} THEN Null ELSE outputs

CacheKeys(drv) ==
  IF drv.cacheStatus = "unknown" THEN <<>>
  ELSE [isCached |-> drv.cacheStatus \in {"cached", "local"},
        cacheStatus |-> drv.cacheStatus,
        neededBuilds |-> drv.neededBuilds,
        neededSubstitutes |-> drv.neededSubstitutes]

ConstituentsJson(constituents) ==
  [k \in DOMAIN NoConstituents |-> constituents[k]]

ConstituentsFromJson(json) ==
  [k \in DOMAIN NoConstituents |-> GetOr(json, k, NoConstituents[k])]

DrvToJson(drv) ==
  [drvPath |-> drv.drvPath, system |-> drv.system,
   outputs |-> OutputsJson(drv.outputs)]
    ++ Key("meta", drv.meta)
    ++ Key("inputDrvs", drv.inputDrvs)
    ++ Key("requiredSystemFeatures", drv.requiredSystemFeatures)
    ++ ConstituentsJson(drv.constituents)
    ++ CacheKeys(drv)

(* Mutant: a new field is written and not read. *)
FeaturesForgotten(json) == {}

FeaturesFromJson(json) == Get(json, "requiredSystemFeatures")

DrvFromJson(json) ==
  LET status == GetOr(json, "cacheStatus", "unknown")
      Needed(k) == IF status = "unknown" THEN <<>> ELSE GetOr(json, k, <<>>)
  IN  [drvPath |-> json.drvPath, system |-> json.system,
       outputs |-> json.outputs,
       meta |-> Get(json, "meta"),
       inputDrvs |-> Get(json, "inputDrvs"),
       requiredSystemFeatures |-> FeaturesFromJson(json),
       constituents |-> ConstituentsFromJson(json),
       cacheStatus |-> status,
       neededBuilds |-> Needed("neededBuilds"),
       neededSubstitutes |-> Needed("neededSubstitutes")]

(* Lists of messages are written if there are any. *)
LogKeys(logs) ==
  [k \in {x \in DOMAIN NoLogs : logs[x] # <<>>} |-> logs[k]]

PayloadJson(payload) ==
  CASE payload.type = "job"   -> DrvToJson(payload.drv)
                                   ++ Key("extraValue", payload.extraValue)
    [] payload.type = "attrs" -> [attrs |-> payload.attrs]
    [] payload.type = "error" -> [error |-> payload.error,
                                  fatal |-> payload.fatal]

ToJson(response) ==
  [attrPath |-> response.attrPath] ++ LogKeys(response.logs)
    ++ PayloadJson(response.payload)

(* getObject refuses null. *)
Parses(json) ==
  \/ DOMAIN json \cap {"attrs", "error"} # {}
  \/ "drvPath" \in DOMAIN json /\ json.outputs # Null

(* The first of three keys that is there tells the variant. *)
PayloadFromJson(json) ==
  IF "attrs" \in DOMAIN json
  THEN [type |-> "attrs", attrs |-> json.attrs]
  ELSE IF "error" \in DOMAIN json
  THEN [type |-> "error", error |-> json.error,
        fatal |-> GetOr(json, "fatal", FALSE)]
  ELSE [type |-> "job", drv |-> DrvFromJson(json),
        extraValue |-> Get(json, "extraValue")]

FromJson(json) ==
  [attrPath |-> json.attrPath,
   logs |-> [k \in DOMAIN NoLogs |-> GetOr(json, k, <<>>)],
   payload |-> PayloadFromJson(json)]
=============================================================================
