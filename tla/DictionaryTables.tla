-------------------------- MODULE DictionaryTables --------------------------
(***************************************************************************)
(* compound_noun_dict, stopword_dict and the versions their triggers keep, *)
(* with the operations of the dictionary API on the compound nouns.        *)
(*                                                                         *)
(* A row is a (word, domain) pair.  A row trigger bumps the version of a   *)
(* table for each row that is inserted, updated or deleted; an insert that *)
(* ON CONFLICT DO NOTHING drops bumps nothing.  Each operation writes its  *)
(* row in one transaction and dictionary_audit_logs in a second one: no    *)
(* modelled operation reads that log, and it is left out.                  *)
(***************************************************************************)
EXTENDS Integers, FiniteSets

CONSTANTS
  CompoundWords,  \* the words compound_noun_dict can hold
  StopWords,      \* the words stopword_dict can hold
  NewsDomains,    \* the domains articles have
  AllDomains,     \* 'all': the row applies to every domain
  MaxVersion      \* bound: the largest version of a table

ASSUME TablesAssumption ==
  /\ IsFiniteSet(CompoundWords) /\ IsFiniteSet(StopWords)
  /\ IsFiniteSet(NewsDomains) /\ AllDomains \notin NewsDomains
  /\ MaxVersion \in Nat \ {0}

VARIABLES
  compoundDict,  \* the rows of compound_noun_dict
  stopwordDict,  \* the rows of stopword_dict
  versions       \* dictionary_versions

tableVars == <<compoundDict, stopwordDict, versions>>

Domains == NewsDomains \union {AllDomains}
CompoundRows == CompoundWords \X Domains
StopwordRows == StopWords \X Domains

TablesTypeOK ==
  /\ compoundDict \subseteq CompoundRows
  /\ stopwordDict \subseteq StopwordRows
  /\ versions \in [compound : 1 .. MaxVersion, stopword : 1 .. MaxVersion]

\* Both tables as administrators may have emptied them of what the migrations
\* put in, with versions counted from there.
TablesInit ==
  /\ compoundDict = {}
  /\ stopwordDict = {}
  /\ versions = [compound |-> 1, stopword |-> 1]

\* fetch_compound_nouns and fetch_stopwords: 'all' as an argument asks for
\* the words of every domain.
WordsFor(rows, domain) ==
  {row[1] : row \in {r \in rows : domain = AllDomains \/ r[2] \in {domain, AllDomains}}}

-----------------------------------------------------------------------------
(* Writing the compound nouns.                                             *)

\* A statement that touches one row and leaves the table holding rows.
WriteCompound(rows) ==
  /\ versions.compound < MaxVersion
  /\ compoundDict' = rows
  /\ versions' = [versions EXCEPT !.compound = @ + 1]
  /\ UNCHANGED stopwordDict

\* INSERT ... ON CONFLICT (word, domain) DO NOTHING
InsertCompound(row) ==
  IF row \in compoundDict THEN UNCHANGED tableVars
  ELSE WriteCompound(compoundDict \union {row})

\* create_compound_noun: ON CONFLICT DO UPDATE, so the version moves either way.
CreateCompoundNoun(row) == WriteCompound(compoundDict \union {row})

\* update_compound_noun_domain of a row that exists; a row of the word in the
\* target domain is a UniqueViolation, and nothing is written.
UpdateCompoundNounDomain(row, domain) ==
  /\ row \in compoundDict
  /\ <<row[1], domain>> \notin compoundDict \ {row}
  /\ WriteCompound((compoundDict \ {row}) \union {<<row[1], domain>>})

DeleteCompoundNoun(row) ==
  /\ row \in compoundDict
  /\ WriteCompound(compoundDict \ {row})

AdministerCompounds ==
  \/ \E row \in CompoundRows : CreateCompoundNoun(row) \/ DeleteCompoundNoun(row)
  \/ \E row \in CompoundRows, domain \in Domains : UpdateCompoundNounDomain(row, domain)

\* What the operations on stop words do to the table: one row is added or
\* rewritten, removed, or moved to another domain.
AdministerStopwords ==
  /\ versions.stopword < MaxVersion
  /\ \E row \in StopwordRows :
       \/ stopwordDict' = stopwordDict \union {row}
       \/ row \in stopwordDict /\ stopwordDict' = stopwordDict \ {row}
       \/ \E domain \in Domains :
            /\ row \in stopwordDict
            /\ <<row[1], domain>> \notin stopwordDict
            /\ stopwordDict' = (stopwordDict \ {row}) \union {<<row[1], domain>>}
  /\ versions' = [versions EXCEPT !.stopword = @ + 1]
  /\ UNCHANGED compoundDict
=============================================================================
