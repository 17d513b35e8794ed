-------------------------- MODULE DictionaryCache ---------------------------
(***************************************************************************)
(* The dictionary caches of processing/preprocessing.py in one worker      *)
(* process of Spark, which calls tokenize for one article after another    *)
(* and has a single thread; the tables change under it at any time.        *)
(*                                                                         *)
(* tokenize(text, domain) first lets _refresh_dictionary_caches_if_needed  *)
(* look at the versions, then reads the stop words, the compound nouns of  *)
(* the domain and, for the longest compound, those of every domain, each   *)
(* through an lru_cache that loads what is missing.  get_user_dictionary   *)
(* and get_user_dictionary_set of a domain are loaded by one call and are  *)
(* one cache here; get_mecab keeps nothing of the dictionary and is left   *)
(* out.  The caches hold eight domains and the program has fewer.          *)
(***************************************************************************)
EXTENDS DictionaryTables

CONSTANTS
  NotLoaded,         \* lru_cache has no value
  NoVersions,        \* _cached_dictionary_versions is None
  FileWords,         \* korean_user_dict.txt
  DefaultStopwords,  \* _KOREAN_STOPWORDS_DEFAULT
  MaxFailures        \* bound: database reads that fail and workers that die

ASSUME CacheAssumption ==
  /\ MaxFailures \in Nat
  /\ NoVersions \notin [compound : Nat, stopword : Nat]

VARIABLES
  cachedVersions,  \* _cached_dictionary_versions
  compoundCache,   \* get_user_dictionary(_set): what a domain's call returns
  stopwordCache,   \* _get_stopwords
  stage,           \* where tokenize is
  article,         \* the domain of the article tokenize works on
  failures,        \* failed reads and deaths so far
  unversioned      \* history: a cache was loaded before versions were known,
                   \* or from the fallback because a read failed

cacheVars == <<cachedVersions, compoundCache, stopwordCache, stage, article,
               failures, unversioned>>

Empty == [domain \in Domains |-> NotLoaded]

CacheTypeOK ==
  /\ cachedVersions \in {NoVersions} \union [compound : 1 .. MaxVersion, stopword : 1 .. MaxVersion]
  /\ compoundCache \in [Domains -> {NotLoaded} \union SUBSET (CompoundWords \union FileWords)]
  /\ stopwordCache \in [Domains -> {NotLoaded} \union SUBSET (StopWords \union DefaultStopwords)]
  /\ stage \in {"idle", "stopwords", "compounds", "longest"}
  /\ article \in Domains
  /\ failures \in 0 .. MaxFailures
  /\ unversioned \in BOOLEAN

\* A process that has just been started has read nothing.
Started ==
  /\ cachedVersions = NoVersions
  /\ compoundCache = Empty /\ stopwordCache = Empty
  /\ stage = "idle"
  /\ unversioned = FALSE

CacheInit == Started /\ failures = 0 /\ article = AllDomains

Failing ==
  /\ failures < MaxFailures
  /\ failures' = failures + 1

\* get_user_dictionary and _get_stopwords fall back when the table has no word.
OrElse(words, fallback) == IF words = {} THEN fallback ELSE words

CurrentCompounds(domain) == OrElse(WordsFor(compoundDict, domain), FileWords)
CurrentStopwords(domain) == OrElse(WordsFor(stopwordDict, domain), DefaultStopwords)

-----------------------------------------------------------------------------
(* _refresh_dictionary_caches_if_needed                                    *)

\* A faulty variant of Adopt: the new versions are recorded over the old caches.
AdoptKeepingCaches(latest) ==
  /\ cachedVersions' = latest
  /\ UNCHANGED <<compoundCache, stopwordCache, unversioned>>

\* A faulty variant of Adopt: the versions are recorded the first time only.
AdoptOnce(latest) ==
  /\ cachedVersions' = IF cachedVersions = NoVersions THEN latest ELSE cachedVersions
  /\ IF cachedVersions \in {NoVersions, latest}
     THEN UNCHANGED <<compoundCache, stopwordCache, unversioned>>
     ELSE /\ compoundCache' = Empty /\ stopwordCache' = Empty
          /\ unversioned' = FALSE

\* Adopting the versions that were read: the first time they are only
\* recorded, later they empty every cache if one of them has changed.
Adopt(latest) ==
  /\ cachedVersions' = latest
  /\ IF cachedVersions \in {NoVersions, latest}
     THEN UNCHANGED <<compoundCache, stopwordCache, unversioned>>
     ELSE /\ compoundCache' = Empty /\ stopwordCache' = Empty
          /\ unversioned' = FALSE

\* The article comes: the versions are read, unless the interval since the
\* last attempt has not passed or the read fails.
StartTokenize(domain) ==
  /\ stage = "idle"
  /\ stage' = "stopwords"
  /\ article' = domain
  /\ \/ Adopt(versions) /\ UNCHANGED failures
     \/ UNCHANGED <<cachedVersions, compoundCache, stopwordCache, unversioned, failures>>
     \/ Failing /\ UNCHANGED <<cachedVersions, compoundCache, stopwordCache, unversioned>>

-----------------------------------------------------------------------------
(* The lazy loads.                                                         *)

\* What a call of a cached function leaves in its cache for the domain.
Load(cache, domain, words) == [cache EXCEPT ![domain] = words]

LoadStopwords ==
  /\ stage = "stopwords" /\ stage' = "compounds"
  /\ IF stopwordCache[article] # NotLoaded
     THEN UNCHANGED <<stopwordCache, unversioned, failures>>
     ELSE \/ /\ stopwordCache' = Load(stopwordCache, article, CurrentStopwords(article))
             /\ unversioned' = (unversioned \/ cachedVersions = NoVersions)
             /\ UNCHANGED failures
          \/ /\ Failing
             /\ stopwordCache' = Load(stopwordCache, article, DefaultStopwords)
             /\ unversioned' = TRUE
  /\ UNCHANGED <<cachedVersions, compoundCache, article>>

\* get_user_dictionary(_set)
LoadCompounds(domain, next) ==
  /\ stage' = next
  /\ IF compoundCache[domain] # NotLoaded
     THEN UNCHANGED <<compoundCache, unversioned, failures>>
     ELSE \/ /\ compoundCache' = Load(compoundCache, domain, CurrentCompounds(domain))
             /\ unversioned' = (unversioned \/ cachedVersions = NoVersions)
             /\ UNCHANGED failures
          \/ /\ Failing
             /\ compoundCache' = Load(compoundCache, domain, FileWords)
             /\ unversioned' = TRUE
  /\ UNCHANGED <<cachedVersions, stopwordCache, article>>

\* merge_compound_nouns returns before it asks for the longest compound when
\* there is nothing to merge or no compound to merge into.
SkipLongest ==
  /\ stage = "longest" /\ stage' = "idle"
  /\ UNCHANGED <<cachedVersions, compoundCache, stopwordCache, article, failures, unversioned>>

Tokenize ==
  \/ LoadStopwords
  \/ stage = "compounds" /\ LoadCompounds(article, "longest")
  \/ stage = "longest" /\ compoundCache[article] # {} /\ LoadCompounds(AllDomains, "idle")
  \/ SkipLongest

\* The worker process dies, or Spark ends it, and a new one is started.
RestartWorker ==
  /\ Failing
  /\ cachedVersions' = NoVersions
  /\ compoundCache' = Empty /\ stopwordCache' = Empty
  /\ stage' = "idle" /\ unversioned' = FALSE
  /\ UNCHANGED article

CacheNext ==
  \/ \E domain \in Domains : StartTokenize(domain)
  \/ Tokenize
  \/ RestartWorker

-----------------------------------------------------------------------------
(* Properties.                                                             *)

\* A worker whose recorded versions are those of the database works with the
\* words the database has, in every domain, unless it filled a cache before it
\* knew a version or from the fallback of a failed read: a change of a table
\* can hide behind an equal version in these two ways only.
CurrentVersionMeansCurrentWords ==
  cachedVersions = versions /\ ~unversioned =>
    \A domain \in Domains :
      /\ compoundCache[domain] \in {NotLoaded, CurrentCompounds(domain)}
      /\ stopwordCache[domain] \in {NotLoaded, CurrentStopwords(domain)}

\* The strengthening that is inductive: the versions of the worker are never
\* ahead of the database's, and what it loaded before it had any is noted.
CacheInv ==
  /\ cachedVersions # NoVersions =>
       cachedVersions.compound <= versions.compound /\ cachedVersions.stopword <= versions.stopword
  /\ cachedVersions = NoVersions /\ ~unversioned => compoundCache = Empty /\ stopwordCache = Empty
  /\ CurrentVersionMeansCurrentWords
=============================================================================
