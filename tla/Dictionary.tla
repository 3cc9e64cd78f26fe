---- MODULE Dictionary ----
(***************************************************************************)
(* The dictionary of makes and how it grows. Uploads and searches resolve  *)
(* what people type; what stays unresolved is counted. marketplace-service *)
(* promotes frequent search terms to aliases by itself, administrators turn*)
(* frequent rejections into makes and aliases, or dismiss them. The page   *)
(* they decide on, the vocabulary searches use and the entries a promotion *)
(* works on are all copies that grow old.                                  *)
(*                                                                         *)
(*   entries   marketplace.vehicle_dictionaries: the makes                 *)
(*   vocabulary  the parser's cache of them                                *)
(*   refused, unresolved   how often a spelling was rejected in an upload, *)
(*             and left over in a search                                   *)
(*   dismissed admin.dictionary_candidate_dismissals                       *)
(*   candidates  what the page lists; several of its buttons may be at work*)
(*   handling  what an administrator has decided, and how far that is      *)
(*   promotion the run of promoteAliases                                   *)
(*   decisions  history variable: decisions whose candidate was dismissed  *)
(***************************************************************************)
EXTENDS Naturals, FiniteSets

CONSTANTS
  SeededMakes,           \* the seeded makes, by name
  Aliases,         \* their aliases
  Typed,           \* spellings that dealers and buyers use
  NewMakes,        \* names an administrator may give a new make
  KeyOf,           \* compact(): spellings that differ in spaces share a key
  NameScore,       \* trigram similarity of two spellings, in percent
  KeyScore,        \* ... and of two keys
  REVIEW_OCCURRENCES, PROMOTE_OCCURRENCES,    \* 2 and 5 in the code
  Reviewers,       \* administrators on the candidates
  NoMake

MaxOccurrences ==
  IF REVIEW_OCCURRENCES > PROMOTE_OCCURRENCES THEN REVIEW_OCCURRENCES ELSE PROMOTE_OCCURRENCES

VARIABLES entries, vocabulary, refused, unresolved, dismissed, candidates, handling,
          promotion, decisions

dictionaryVars == <<entries, vocabulary, refused, unresolved, dismissed, candidates, handling,
                    promotion, decisions>>

Spellings == SeededMakes \cup Typed \cup NewMakes \cup UNION {Aliases[m] : m \in SeededMakes}

(* Similarities are percentages, and a key is as similar to itself as any. *)
ASSUME DictionaryAssumption ==
  /\ IsFiniteSet(SeededMakes)
  /\ REVIEW_OCCURRENCES \in Nat /\ PROMOTE_OCCURRENCES \in Nat
  /\ \A s, t \in Spellings : KeyScore[KeyOf[s]][KeyOf[t]] \in 0 .. 100
  /\ \A s, t \in Spellings : KeyOf[s] = KeyOf[t] => KeyScore[KeyOf[s]][KeyOf[t]] = 100

Entry     == [name : Spellings, aliases : SUBSET Spellings]
Candidate == [value : Typed, closest : Spellings \cup {NoMake}]
Verdict  == [kind : {"make", "alias", "noise"}, value : Typed \cup {NoMake},
              name : Spellings \cup {NoMake}]
Handling  == [pc : {"idle", "write", "dismiss", "audit"}, decision : Verdict]
NoHandling == [pc |-> "idle",
               decision |-> [kind |-> "noise", value |-> NoMake, name |-> NoMake]]
NoPromotion      == [pc |-> "idle", todo |-> {}, entries |-> {}, alone |-> TRUE]

DictionaryTypeOK ==
  /\ entries \subseteq Entry /\ vocabulary \subseteq Entry
  /\ refused \in [Typed -> 0 .. MaxOccurrences]
  /\ unresolved \in [Typed -> 0 .. MaxOccurrences]
  /\ dismissed \subseteq Typed
  /\ candidates \subseteq Candidate
  /\ handling \in [Reviewers -> Handling]
  /\ promotion \in [pc : {"idle", "load", "promote"}, todo : SUBSET Typed,
                    entries : SUBSET Entry, alone : BOOLEAN]
  /\ decisions \subseteq Verdict

DictionaryInit ==
  /\ entries = {[name |-> m, aliases |-> Aliases[m]] : m \in SeededMakes}
  /\ vocabulary = entries
  /\ refused = [s \in Typed |-> 0] /\ unresolved = refused
  /\ dismissed = {}
  /\ candidates = {} /\ handling = [a \in Reviewers |-> NoHandling]
  /\ promotion = NoPromotion /\ decisions = {}

----
(* A spelling is resolved by its key: to the make that carries it, or, if  *)
(* no make does, to the one that is clearly the most similar.              *)
SpellingsOf(entry) == {entry.name} \cup entry.aliases

Claimants(makes, key) == {e \in makes : \E s \in SpellingsOf(e) : KeyOf[s] = key}

Similarity(entry, key) ==
  CHOOSE x \in {KeyScore[key][KeyOf[s]] : s \in SpellingsOf(entry)} :
    \A s \in SpellingsOf(entry) : KeyScore[key][KeyOf[s]] <= x

Closest(makes, key) ==
  {e \in makes : /\ Similarity(e, key) >= 45
                 /\ \A other \in makes \ {e} :
                      Similarity(other, key) + 5 <= Similarity(e, key)}

(* The parser: a key that several makes carry names none of them.          *)
SearchMake(makes, spelling) ==
  LET key == KeyOf[spelling] IN
  IF Cardinality(Claimants(makes, key)) = 1 THEN Claimants(makes, key)
  ELSE Closest(makes, key)

(* The snapshot of an upload: a name comes before an alias; every alias is *)
(* a hit of its own, and several hits resolve to nothing.                  *)
ResolveMake(makes, spelling) ==
  LET key   == KeyOf[spelling]
      exact == {e \in makes : KeyOf[e.name] = key}
      hits  == UNION {{<<e, s>> : s \in {x \in e.aliases : KeyOf[x] = key}} : e \in makes}
  IN IF exact # {} THEN exact
     ELSE IF Cardinality(hits) = 1 THEN {hit[1] : hit \in hits}
     ELSE IF hits # {} THEN {}
     ELSE Closest(makes, key)

Counted(count, spelling) ==
  [count EXCEPT ![spelling] = IF @ < MaxOccurrences THEN @ + 1 ELSE @]

(* VALIDATE rejects a row whose make nothing resolved.                     *)
RejectRow(spelling) ==
  /\ ResolveMake(entries, spelling) = {}
  /\ refused' = Counted(refused, spelling)
  /\ UNCHANGED <<entries, vocabulary, unresolved, dismissed, candidates, handling, promotion,
                 decisions>>

(* A search is logged with the words it could not resolve.                 *)
LogSearch(spelling) ==
  /\ SearchMake(vocabulary, spelling) = {}
  /\ unresolved' = Counted(unresolved, spelling)
  /\ UNCHANGED <<entries, vocabulary, refused, dismissed, candidates, handling, promotion,
                 decisions>>

CacheExpires ==
  /\ vocabulary' = entries
  /\ UNCHANGED <<entries, refused, unresolved, dismissed, candidates, handling, promotion,
                 decisions>>

----
(* addAlias, on one row and only if the row has no such alias; that it had *)
(* one is not told: the driver answers an UPDATE with rows and their count.*)
WithAlias(name, alias) ==
  {IF e.name = name THEN [e EXCEPT !.aliases = @ \cup {alias}] ELSE e : e \in entries}

(* promoteAliases reads the candidates, then the entries, ...              *)
FindCandidates ==
  /\ promotion.pc = "idle"
  /\ \E s \in Typed : unresolved[s] >= PROMOTE_OCCURRENCES
  /\ promotion' = [NoPromotion EXCEPT !.pc = "load",
                     !.todo = {s \in Typed : unresolved[s] >= PROMOTE_OCCURRENCES}]
  /\ UNCHANGED <<entries, vocabulary, refused, unresolved, dismissed, candidates, handling,
                 decisions>>

FindEntries ==
  /\ promotion.pc = "load"
  /\ promotion' = [promotion EXCEPT !.pc = "promote", !.entries = entries]
  /\ UNCHANGED <<entries, vocabulary, refused, unresolved, dismissed, candidates, handling,
                 decisions>>

(* The make whose name is clearly the most similar, for a term that no make*)
(* carries.                                                                *)
FindBestMatch(spelling) ==
  {e \in promotion.entries :
     /\ \A other \in promotion.entries : spelling \notin SpellingsOf(other)
     /\ NameScore[spelling][e.name] >= 60
     /\ \A other \in promotion.entries \ {e} :
          NameScore[spelling][other.name] + 5 <= NameScore[spelling][e.name]}

(* ... and adds the aliases one after the other.                           *)
PromoteAlias(spelling) ==
  LET left == promotion.todo \ {spelling} IN
  /\ promotion.pc = "promote" /\ spelling \in promotion.todo
  /\ \/ FindBestMatch(spelling) = {} /\ UNCHANGED entries
     \/ \E best \in FindBestMatch(spelling) : entries' = WithAlias(best.name, spelling)
  /\ promotion' = IF left = {} THEN NoPromotion ELSE [promotion EXCEPT !.todo = left]
  /\ UNCHANGED <<vocabulary, refused, unresolved, dismissed, candidates, handling,
                 decisions>>

----
(* listMakeCandidates: each candidate with the name most similar to it.    *)
ClosestMatch(spelling) ==
  LET near == {e \in entries : /\ NameScore[spelling][e.name] >= 30
                               /\ \A other \in entries :
                                    NameScore[spelling][other.name]
                                      <= NameScore[spelling][e.name]}
  IN IF near = {} THEN {NoMake} ELSE {e.name : e \in near}

OpenPage ==
  LET shown == {s \in Typed : refused[s] >= REVIEW_OCCURRENCES /\ s \notin dismissed}
  IN /\ candidates' = {c \in Candidate : c.value \in shown /\ c.closest \in ClosestMatch(c.value)}
     /\ UNCHANGED <<entries, vocabulary, refused, unresolved, dismissed, handling, promotion,
                    decisions>>

(* The three buttons of a candidate. The name of a new make may be edited. *)
DecisionsOn(candidate) ==
  [kind : {"noise"}, value : {candidate.value}, name : {NoMake}]
    \cup [kind : {"make"}, value : {candidate.value}, name : NewMakes]
    \cup [kind : {"alias"}, value : {candidate.value}, name : {candidate.closest} \ {NoMake}]

Decide(a, candidate, decision) ==
  /\ handling[a].pc = "idle" /\ candidate \in candidates
  /\ decision \in DecisionsOn(candidate)
  /\ handling' = [handling EXCEPT ![a] =
       [pc |-> IF decision.kind = "noise" THEN "dismiss" ELSE "write", decision |-> decision]]
  /\ UNCHANGED <<entries, vocabulary, refused, unresolved, dismissed, candidates, promotion,
                 decisions>>

Refuses(decision) == decision.kind = "make" /\ \E e \in entries : e.name = decision.name

WriteOf(decision) ==
  IF decision.kind = "make"
  THEN entries \cup {[name |-> decision.name, aliases |-> {}]}
  ELSE WithAlias(decision.name, decision.value)

(* Mutant of WriteEntry: a refusal by marketplace-service is not an error. *)
WriteEntryOrNot(a) ==
  LET decision == handling[a].decision IN
  /\ handling[a].pc = "write"
  /\ handling' = [handling EXCEPT ![a].pc = "dismiss"]
  /\ \/ ~Refuses(decision) /\ entries' = WriteOf(decision)
     \/ UNCHANGED entries
  /\ promotion' = [promotion EXCEPT !.alone = @ /\ promotion.pc # "promote"]
  /\ UNCHANGED <<vocabulary, refused, unresolved, dismissed, candidates, decisions>>

(* createDictionaryEntry or addDictionaryAlias: carried out or refused; the*)
(* answer may be lost, and an error ends the request.                      *)
WriteEntry(a) ==
  LET decision == handling[a].decision IN
  /\ handling[a].pc = "write"
  /\ \/ /\ ~Refuses(decision)
        /\ entries' = WriteOf(decision)
        /\ \E next \in {NoHandling, [handling[a] EXCEPT !.pc = "dismiss"]} :
             handling' = [handling EXCEPT ![a] = next]
     \/ UNCHANGED entries /\ handling' = [handling EXCEPT ![a] = NoHandling]
  /\ promotion' = [promotion EXCEPT !.alone = @ /\ promotion.pc # "promote"]
  /\ UNCHANGED <<vocabulary, refused, unresolved, dismissed, candidates, decisions>>

Dismiss(a) ==
  LET decision == handling[a].decision IN
  /\ handling[a].pc = "dismiss"
  /\ dismissed' = dismissed \cup {decision.value}
  /\ decisions' = decisions \cup {decision}
  /\ handling' = [handling EXCEPT ![a].pc = "audit"]
  /\ UNCHANGED <<entries, vocabulary, refused, unresolved, candidates, promotion>>

(* The audit log, and the answer: the candidate leaves the page.           *)
CandidateAnswered(a) ==
  LET decision == handling[a].decision IN
  /\ handling[a].pc = "audit"
  /\ candidates' = {c \in candidates : c.value # decision.value}
  /\ handling' = [handling EXCEPT ![a] = NoHandling]
  /\ UNCHANGED <<entries, vocabulary, refused, unresolved, dismissed, promotion, decisions>>

(* The database or the connection fails: the candidate stays.              *)
RequestFails(a) ==
  /\ handling[a].pc \in {"dismiss", "audit"}
  /\ handling' = [handling EXCEPT ![a] = NoHandling]
  /\ UNCHANGED <<entries, vocabulary, refused, unresolved, dismissed, candidates, promotion,
                 decisions>>

DictionaryNext ==
  \/ CacheExpires \/ OpenPage \/ FindCandidates \/ FindEntries
  \/ \E s \in Typed : RejectRow(s) \/ LogSearch(s) \/ PromoteAlias(s)
  \/ \E a \in Reviewers :
       \/ WriteEntry(a) \/ Dismiss(a) \/ CandidateAnswered(a) \/ RequestFails(a)
       \/ \E candidate \in candidates :
            \E decision \in DecisionsOn(candidate) : Decide(a, candidate, decision)

DictionarySpec == DictionaryInit /\ [][DictionaryNext]_dictionaryVars

----
(* A spelling that has left the review for good was dismissed as noise, or *)
(* is carried by a make: a decision that failed half way does not hide it. *)
(* (Except that a make may be given another name than the spelling.)       *)
HiddenIsHandled ==
  \A s \in dismissed : \E d \in decisions :
    /\ d.value = s
    /\ \/ d.kind = "noise"
       \/ d.kind = "make" /\ d.name # s
       \/ \E e \in entries : s \in SpellingsOf(e)

(* The two services match by the same rules: over the same entries they    *)
(* resolve a spelling to the same make or both to none. They differ on a   *)
(* spelling that one make spells as its name and another as an alias, and  *)
(* on one that a make carries twice (see LinkedSpellingResolves).          *)
CarriedTwice(s) ==
  \E e \in entries, x, y \in Spellings :
    {x, y} \subseteq e.aliases /\ x # y /\ KeyOf[x] = KeyOf[s] /\ KeyOf[y] = KeyOf[s]

NamedAndMore(s) ==
  /\ \E e \in entries : KeyOf[e.name] = KeyOf[s]
  /\ Cardinality(Claimants(entries, KeyOf[s])) > 1

ServicesAgree ==
  \A s \in Typed : 
    CarriedTwice(s) \/ NamedAndMore(s) \/ ResolveMake(entries, s) = SearchMake(entries, s)

(* A promotion never takes a spelling that another make carries, unless an *)
(* administrator has written to the dictionary since it read the entries.  *)
PromotesUnclaimed ==
  [][\A s \in Typed :
       (PromoteAlias(s) /\ promotion.alone /\ entries' # entries)
         => \A e \in entries : s \notin SpellingsOf(e)]_dictionaryVars

(* AdminDictionaryPage.tsx:65: "Future uploads with this spelling will     *)
(* resolve to" the make, as long as no other make has come to carry it.    *)
LinkedSpellingResolves ==
  \A link \in {d \in decisions : d.kind = "alias"} :
    \/ \E e \in entries : e.name # link.name /\ e \in Claimants(entries, KeyOf[link.value])
    \/ {e.name : e \in ResolveMake(entries, link.value)} = {link.name}
====
