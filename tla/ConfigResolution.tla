--------------------------- MODULE ConfigResolution ---------------------------
(***************************************************************************)
(* resolveConfig: the secret key and the endpoint of a client come from    *)
(* the constructor's options, from one of the brand spellings of an        *)
(* environment variable, from a configuration file, or for the endpoint    *)
(* from a default.  It runs to its end before anything else does.          *)
(***************************************************************************)
EXTENDS SequencesExt, Integers

Unset == "unset"

WIRE_BRANDS == <<"cuna", "runa">>

(* Two accepted keys, a string that is none, a value that is not a string. *)
ApiKeys == {"key1", "key2", "badKey", "notString"}
validApiKey(value) == value \in {"key1", "key2"}

(* An accepted origin, with and without its slash, the other brand's, and  *)
(* what is refused.                                                        *)
BaseUrls == {"cunaOrigin", "cunaOrigin/", "runaOrigin", "elsewhere", "notString"}
DEFAULT_BASE_URL == "cunaOrigin"
acceptedBaseUrl(value) == value \in {"cunaOrigin", "cunaOrigin/", "runaOrigin"}
normalizeBaseUrl(value) == IF value = "cunaOrigin/" THEN "cunaOrigin" ELSE value

(* The places of the names that are set, in the order of the brands.       *)
SetNames(names, env) == {i \in DOMAIN names : env[names[i]] # Unset}

(* selectBrandedEnv: the first spelling that is set, whatever its value,   *)
(* and the later ones that say something else, of which it warns.          *)
selectBrandedEnv(names, env) ==
  LET set == SetNames(names, env)
      first == CHOOSE i \in set : \A j \in set : i <= j
      value == env[names[first]]
  IN IF set = {} THEN [value |-> Unset, shadowed |-> {}]
     ELSE [value |-> value, shadowed |-> {names[i] : i \in {j \in set : env[names[j]] # value}}]

(* readConfigFile: a regular file with a JSON object of no other members   *)
(* than these two, both strings.  No file says as little as an empty one.  *)
File(readable, apiKey, baseUrl) ==
  [readable |-> readable, api_key |-> apiKey, base_url |-> baseUrl]
NoFile == File(TRUE, Unset, Unset)
Readable(file) == file.readable /\ "notString" \notin {file.api_key, file.base_url}

(* One setting: what is selected, where it comes from, what is disclosed.  *)
Selected(option, names, env, inFile, default) ==
  LET fromEnv == selectBrandedEnv(names, env)
  IN CASE option # Unset -> [value |-> option, source |-> "constructor", shadowed |-> {}]
       [] option = Unset /\ fromEnv.value # Unset ->
            [value |-> fromEnv.value, source |-> "environment", shadowed |-> fromEnv.shadowed]
       [] option = Unset /\ fromEnv.value = Unset /\ inFile # Unset ->
            [value |-> inFile, source |-> "file", shadowed |-> {}]
       [] OTHER -> [value |-> default, source |-> "default", shadowed |-> {}]

ConfigError(shadowed) == [failed |-> TRUE, shadowed |-> shadowed]

(* The options, the variables of both settings, the file.                  *)
resolveConfig(options, keyEnv, urlEnv, file) ==
  IF ~Readable(file) THEN ConfigError({})
  ELSE LET key == Selected(options.apiKey, WIRE_BRANDS, keyEnv, file.api_key, Unset)
           url == Selected(options.baseUrl, WIRE_BRANDS, urlEnv, file.base_url,
                           DEFAULT_BASE_URL)
       IN IF ~validApiKey(key.value) THEN ConfigError(key.shadowed)
          ELSE IF ~acceptedBaseUrl(url.value) THEN ConfigError(key.shadowed \cup url.shadowed)
          ELSE [failed |-> FALSE, apiKey |-> key.value, apiKeySource |-> key.source,
                baseUrl |-> normalizeBaseUrl(url.value), baseUrlSource |-> url.source,
                shadowed |-> key.shadowed \cup url.shadowed]

-------------------------------------------------------------------------------
(* All that was said of a setting, the most authoritative first.           *)
Said(option, env, inFile) ==
  SelectSeq(<<option>> \o [i \in DOMAIN WIRE_BRANDS |-> env[WIRE_BRANDS[i]]] \o <<inFile>>,
            LAMBDA value : value # Unset)

Strings(values) == values \ {"notString"}
Environments(values) == [ToSet(WIRE_BRANDS) -> Strings(values) \cup {Unset}]

(* A present value decides, valid or not: what is less authoritative never *)
(* takes its place, and a file that cannot be read is an error even if     *)
(* nothing in it would have been used.                                     *)
ASSUME NoFallThrough ==
  \A key \in ApiKeys \cup {Unset}, keyEnv \in Environments(ApiKeys),
     inFile \in ApiKeys \cup {Unset}, readable \in BOOLEAN :
    LET outcome == resolveConfig([apiKey |-> key, baseUrl |-> Unset], keyEnv,
                                 [b \in ToSet(WIRE_BRANDS) |-> Unset],
                                 File(readable, inFile, Unset))
        said == Said(key, keyEnv, inFile)
    IN /\ (~outcome.failed) = (/\ readable /\ inFile # "notString"
                               /\ said # <<>> /\ validApiKey(said[1]))
       /\ ~outcome.failed => outcome.apiKey = said[1]

(* The same of the endpoint, which is never anything but an accepted       *)
(* origin, and the default only if nobody said anything.                   *)
ASSUME EndpointIsAccepted ==
  \A url \in BaseUrls \cup {Unset}, urlEnv \in Environments(BaseUrls),
     inFile \in BaseUrls \cup {Unset} :
    LET outcome == resolveConfig([apiKey |-> "key1", baseUrl |-> url],
                                 [b \in ToSet(WIRE_BRANDS) |-> Unset], urlEnv,
                                 File(TRUE, Unset, inFile))
        said == Append(Said(url, urlEnv, inFile), DEFAULT_BASE_URL)
    IN /\ (~outcome.failed) = (inFile # "notString" /\ acceptedBaseUrl(said[1]))
       /\ ~outcome.failed => /\ outcome.baseUrl \in {"cunaOrigin", "runaOrigin"}
                             /\ outcome.baseUrl = normalizeBaseUrl(said[1])
                             /\ (outcome.baseUrlSource = "default") = (Len(said) = 1)

(* A variable is disclosed as ignored exactly when another spelling of its *)
(* setting decides and says something else.                                *)
ASSUME ShadowingIsDisclosed ==
  \A key \in {"key1", Unset}, keyEnv \in Environments(ApiKeys) :
    LET outcome == resolveConfig([apiKey |-> key, baseUrl |-> Unset], keyEnv,
                                 [b \in ToSet(WIRE_BRANDS) |-> Unset], NoFile)
    IN outcome.shadowed = IF key = Unset /\ keyEnv["cuna"] # Unset
                               /\ keyEnv["runa"] \notin {Unset, keyEnv["cuna"]}
                          THEN {"runa"} ELSE {}
===============================================================================
