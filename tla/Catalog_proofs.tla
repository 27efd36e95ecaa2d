---------------------------- MODULE Catalog_proofs ----------------------------
(***************************************************************************)
(* What staff may rely on when they edit the lessons of a course, for any  *)
(* catalog, lessons, requests, editors, seed and number of failures.       *)
(***************************************************************************)
EXTENDS Catalog, FiniteSetTheorems, SequenceTheorems, TLAPS

-----------------------------------------------------------------------------
(* Curriculum metadata and its tags *)

\* Exactly the members of CurriculumMetadata pass the schema (curriculumMetadataSchema).
LEMMA ValidMetadata ==
  \A m : m \in CurriculumMetadata <=>
    /\ m = [discipline |-> m.discipline, phase |-> m.phase, track |-> m.track,
            skill |-> m.skill, level |-> m.level]
    /\ curriculumMetadataSchema(m)
<1> TAKE m
<1> DEFINE rebuilt == [discipline |-> m.discipline, phase |-> m.phase, track |-> m.track,
                       skill |-> m.skill, level |-> m.level]
           of(d, p) == [discipline : {d}, phase : {p}, track : ToSet(getCurriculumTrackKeys(d, p)),
                        skill : {None} \cup ToSet(getCurriculumSkillKeys(d)),
                        level : ToSet(getCurriculumLevelKeys(d))]
<1>1. ASSUME m \in CurriculumMetadata
      PROVE  m = rebuilt /\ curriculumMetadataSchema(m)
  <2>1. PICK d \in curriculumDisciplineKeys : \E p \in ToSet(getCurriculumPhaseKeys(d)) : m \in of(d, p)
    BY <1>1 DEF CurriculumMetadata
  <2>2. PICK p \in ToSet(getCurriculumPhaseKeys(d)) : m \in of(d, p)
    BY <2>1
  <2>3. m = rebuilt /\ m.discipline = d /\ m.phase = p
    BY <2>2
  <2> QED BY <2>1, <2>2, <2>3 DEF curriculumMetadataSchema
<1>2. ASSUME m = rebuilt, curriculumMetadataSchema(m)
      PROVE  m \in CurriculumMetadata
  <2>1. m.discipline \in curriculumDisciplineKeys
        /\ m.phase \in ToSet(getCurriculumPhaseKeys(m.discipline))
    BY <1>2 DEF curriculumMetadataSchema
  <2>2. rebuilt \in of(m.discipline, m.phase)
    BY <1>2 DEF curriculumMetadataSchema
  <2>3. m \in of(m.discipline, m.phase)
    BY <2>2, <1>2
  <2> QED BY <2>1, <2>3 DEF CurriculumMetadata
<1> QED BY <1>1, <1>2

\* All its values are strings, a missing skill is None.
LEMMA MetadataValues ==
  ASSUME NEW m \in CurriculumMetadata
  PROVE  /\ m.discipline \in STRING /\ m.phase \in STRING /\ m.track \in STRING
         /\ m.skill \in STRING \cup {None}
         /\ m.level \in STRING
<1>1. curriculumMetadataSchema(m)
  BY ValidMetadata
<1>2. m.discipline \in DOMAIN curriculumCatalog /\ m.discipline \in STRING
  BY <1>1, CatalogAssumption DEF curriculumMetadataSchema, curriculumDisciplineKeys
<1>3. \A s \in Seq(STRING) : ToSet(s) \subseteq STRING
  BY ElementOfSeq DEF ToSet
<1>4. /\ m.phase \in ToSet(curriculumCatalog[m.discipline].phases)
      /\ m.track \in ToSet(curriculumCatalog[m.discipline].tracks[m.phase])
      /\ m.skill = None \/ m.skill \in ToSet(curriculumCatalog[m.discipline].skills)
      /\ m.level \in ToSet(curriculumCatalog[m.discipline].levels)
  BY <1>1 DEF curriculumMetadataSchema, getCurriculumPhaseKeys, getCurriculumTrackKeys,
    getCurriculumSkillKeys, getCurriculumLevelKeys
<1> QED BY <1>2, <1>3, <1>4, CatalogAssumption

LEMMA FirstKey ==
  ASSUME NEW s \in Seq(STRING) \ {<<>>}
  PROVE  Head(s) \in ToSet(s) /\ Head(s) \in STRING
<1>1. 1 \in DOMAIN s /\ Head(s) = s[1]
  BY HeadTailProperties, LenProperties, EmptySeq
<1> QED BY <1>1, ElementOfSeq DEF ToSet

\* The default of every discipline is valid (createDefaultCurriculum).
LEMMA DefaultValid ==
  ASSUME NEW d \in curriculumDisciplineKeys
  PROVE  createDefaultCurriculum(d) \in CurriculumMetadata
<1> DEFINE in == curriculumCatalog[d]
           phase == Head(in.phases)
           m == createDefaultCurriculum(d)
<1>1. /\ in.phases \in Seq(STRING) \ {<<>>}
      /\ in.levels \in Seq(STRING) \ {<<>>}
      /\ in.skills \in Seq(STRING)
      /\ \A p \in ToSet(in.phases) : in.tracks[p] \in Seq(STRING) \ {<<>>}
  BY CatalogAssumption DEF curriculumDisciplineKeys
<1>2. /\ phase \in ToSet(in.phases)
      /\ Head(in.tracks[phase]) \in ToSet(in.tracks[phase])
      /\ Head(in.levels) \in ToSet(in.levels)
      /\ in.skills # <<>> => Head(in.skills) \in ToSet(in.skills)
  <2>1. phase \in ToSet(in.phases) /\ Head(in.levels) \in ToSet(in.levels)
    BY <1>1, FirstKey
  <2>2. Head(in.tracks[phase]) \in ToSet(in.tracks[phase])
    BY <1>1, <2>1, FirstKey
  <2> QED BY <1>1, <2>1, <2>2, FirstKey
<1>3. m = [discipline |-> d, phase |-> phase, track |-> Head(in.tracks[phase]),
           skill |-> IF in.skills = <<>> THEN None ELSE Head(in.skills),
           level |-> Head(in.levels)]
  BY DEF createDefaultCurriculum, getCurriculumPhaseKeys, getCurriculumTrackKeys,
    getCurriculumSkillKeys, getCurriculumLevelKeys
<1>4. curriculumMetadataSchema(m)
  BY <1>2, <1>3 DEF curriculumMetadataSchema, getCurriculumPhaseKeys, getCurriculumTrackKeys,
    getCurriculumSkillKeys, getCurriculumLevelKeys
<1> HIDE DEF m
<1>5. m = [discipline |-> m.discipline, phase |-> m.phase, track |-> m.track,
           skill |-> m.skill, level |-> m.level]
  BY <1>3
<1>6. m \in CurriculumMetadata
  BY <1>4, <1>5, ValidMetadata
<1> QED BY <1>6 DEF m

\* Every select leaves valid metadata valid (the editor's selects).
LEMMA EditsValid ==
  ASSUME NEW m \in CurriculumMetadata, NEW n \in edits(m)
  PROVE  n \in CurriculumMetadata
<1> DEFINE d == m.discipline
<1>1. /\ curriculumMetadataSchema(m)
      /\ m = [discipline |-> m.discipline, phase |-> m.phase, track |-> m.track,
              skill |-> m.skill, level |-> m.level]
  BY ValidMetadata
<1>2. CASE \E c \in curriculumDisciplineKeys : n = createDefaultCurriculum(c)
  BY <1>2, DefaultValid
<1>3. ASSUME NEW p \in ToSet(getCurriculumPhaseKeys(d)), n = choosePhase(m, p)
      PROVE  n \in CurriculumMetadata
  <2> DEFINE tracks == getCurriculumTrackKeys(d, p)
  <2>1. tracks # <<>> /\ Head(tracks) \in ToSet(tracks)
    BY <1>1, CatalogAssumption, FirstKey DEF curriculumMetadataSchema, getCurriculumTrackKeys,
      getCurriculumPhaseKeys, curriculumDisciplineKeys
  <2>2. n = [m EXCEPT !.phase = p, !.track = Head(tracks)]
    BY <1>3, <2>1 DEF choosePhase
  <2> HIDE DEF tracks
  <2>3. n = [discipline |-> m.discipline, phase |-> p, track |-> Head(tracks),
             skill |-> m.skill, level |-> m.level]
    BY <1>1, <2>2
  <2>4. Head(tracks) \in ToSet(getCurriculumTrackKeys(d, p))
    BY <2>1 DEF tracks
  <2>5. curriculumMetadataSchema(n)
    BY <1>1, <1>3, <2>3, <2>4 DEF curriculumMetadataSchema
  <2>6. n = [discipline |-> n.discipline, phase |-> n.phase, track |-> n.track,
             skill |-> n.skill, level |-> n.level]
    BY <2>3
  <2> QED BY <2>5, <2>6, ValidMetadata
<1>4. ASSUME NEW t \in ToSet(getCurriculumTrackKeys(d, m.phase)), n = [m EXCEPT !.track = t]
      PROVE  n \in CurriculumMetadata
  <2>1. n = [discipline |-> m.discipline, phase |-> m.phase, track |-> t,
             skill |-> m.skill, level |-> m.level]
    BY <1>1, <1>4
  <2>2. curriculumMetadataSchema(n)
    BY <1>1, <1>4, <2>1 DEF curriculumMetadataSchema
  <2> QED BY <2>1, <2>2, ValidMetadata
<1>5. ASSUME NEW s \in {None} \cup ToSet(getCurriculumSkillKeys(d)), n = [m EXCEPT !.skill = s]
      PROVE  n \in CurriculumMetadata
  <2>1. n = [discipline |-> m.discipline, phase |-> m.phase, track |-> m.track,
             skill |-> s, level |-> m.level]
    BY <1>1, <1>5
  <2>2. curriculumMetadataSchema(n)
    BY <1>1, <1>5, <2>1 DEF curriculumMetadataSchema
  <2> QED BY <2>1, <2>2, ValidMetadata
<1>6. ASSUME NEW l \in ToSet(getCurriculumLevelKeys(d)), n = [m EXCEPT !.level = l]
      PROVE  n \in CurriculumMetadata
  <2>1. n = [discipline |-> m.discipline, phase |-> m.phase, track |-> m.track,
             skill |-> m.skill, level |-> l]
    BY <1>1, <1>6
  <2>2. curriculumMetadataSchema(n)
    BY <1>1, <1>6, <2>1 DEF curriculumMetadataSchema
  <2> QED BY <2>1, <2>2, ValidMetadata
<1> QED BY <1>2, <1>3, <1>4, <1>5, <1>6 DEF edits

-----------------------------------------------------------------------------
(* Metadata as tags *)

\* The tags of valid metadata (createCurriculumTags).
LEMMA TagsOfMetadata ==
  ASSUME NEW m \in CurriculumMetadata
  PROVE  /\ createCurriculumTags(m) \in Seq(Tag) \ {<<>>}
         /\ tagsOf(m) =
              {<<"discipline", m.discipline>>, <<"phase", m.phase>>, <<"track", m.track>>,
               <<"level", m.level>>}
              \cup (IF m.skill = None THEN {} ELSE {<<"skill", m.skill>>})
         /\ tagsOf(m) \subseteq Tag
<1> DEFINE first == <<<<"discipline", m.discipline>>, <<"phase", m.phase>>,
                      <<"track", m.track>>, <<"level", m.level>>>>
           last == IF m.skill = None THEN <<>> ELSE <<<<"skill", m.skill>>>>
<1>1. first \in Seq(Tag)
  BY MetadataValues DEF Tag, Managed
<1>2. last \in Seq(Tag)
  <2>1. CASE m.skill = None
    BY <2>1
  <2>2. CASE m.skill # None
    <3>1. <<"skill", m.skill>> \in Tag
      BY <2>2, MetadataValues DEF Tag, Managed
    <3> QED BY <3>1, <2>2
  <2> QED BY <2>1, <2>2
<1>3. /\ Len(first) = 4
      /\ first[1] = <<"discipline", m.discipline>> /\ first[2] = <<"phase", m.phase>>
      /\ first[3] = <<"track", m.track>> /\ first[4] = <<"level", m.level>>
  OBVIOUS
<1>4. /\ m.skill = None => Len(last) = 0
      /\ m.skill # None => Len(last) = 1 /\ last[1] = <<"skill", m.skill>>
  OBVIOUS
<1>5. createCurriculumTags(m) = first \o last
  BY DEF createCurriculumTags
<1> HIDE DEF first, last
<1>6. /\ first \o last \in Seq(Tag)
      /\ Len(first \o last) = Len(first) + Len(last)
      /\ \A i \in 1 .. Len(first) + Len(last) :
           (first \o last)[i] = IF i <= Len(first) THEN first[i] ELSE last[i - Len(first)]
  BY <1>1, <1>2, ConcatProperties
<1>7. first \o last # <<>>
  BY <1>1, <1>2, <1>3, <1>6, LenProperties, EmptySeq
<1>8. DOMAIN (first \o last) = 1 .. 4 + Len(last)
  BY <1>3, <1>6, LenProperties
<1>9. tagsOf(m) = {(first \o last)[i] : i \in 1 .. 4 + Len(last)}
  BY <1>5, <1>8 DEF tagsOf, ToSet
<1>10. \A i \in {1, 2, 3, 4} : (first \o last)[i] = first[i] /\ first[i] \in Tag
  <2>1. \A i \in 1 .. Len(first) : first[i] \in Tag
    BY <1>1, ElementOfSeq
  <2>2. Len(last) \in Nat
    BY <1>2, LenProperties
  <2> QED BY <1>3, <1>6, <2>1, <2>2
<1>11. CASE m.skill = None
  <2>1. 4 + Len(last) = 4
    BY <1>4, <1>11
  <2>2. 1 .. 4 = {1, 2, 3, 4}
    OBVIOUS
  <2>3. tagsOf(m) = {(first \o last)[i] : i \in {1, 2, 3, 4}}
    BY <1>9, <2>1, <2>2
  <2>4. tagsOf(m) = {first[1], first[2], first[3], first[4]}
    BY <1>10, <2>3
  <2>5. tagsOf(m) \subseteq Tag
    BY <1>10, <2>4
  <2> QED BY <1>3, <1>5, <1>6, <1>7, <1>11, <2>4, <2>5
<1>12. CASE m.skill # None
  <2>1. Len(last) = 1 /\ last[1] = <<"skill", m.skill>>
    BY <1>4, <1>12
  <2>2. 4 + Len(last) = 5
    BY <2>1
  <2>3. 1 .. 5 = {1, 2, 3, 4, 5}
    OBVIOUS
  <2>4. tagsOf(m) = {(first \o last)[i] : i \in {1, 2, 3, 4, 5}}
    BY <1>9, <2>2, <2>3
  <2>5. (first \o last)[5] = last[1] /\ last[1] \in Tag
    <3>1. (first \o last)[5] = IF 5 <= Len(first) THEN first[5] ELSE last[5 - Len(first)]
      BY <1>3, <1>6, <2>1
    <3>2. last[1] \in Tag
      BY <1>2, <2>1, ElementOfSeq
    <3> QED BY <1>3, <3>1, <3>2
  <2>6. tagsOf(m) = {first[1], first[2], first[3], first[4], last[1]}
    BY <1>10, <2>4, <2>5
  <2>7. tagsOf(m) \subseteq Tag
    BY <1>10, <2>5, <2>6
  <2> QED BY <1>3, <1>5, <1>6, <1>7, <1>12, <2>1, <2>6, <2>7
<1> QED BY <1>11, <1>12

\* One tag per key.
Single(tags) == \A t, u \in tags : t[1] = u[1] => t = u

LEMMA MetadataTagsSingle ==
  ASSUME NEW m \in CurriculumMetadata
  PROVE  Single(tagsOf(m))
BY TagsOfMetadata DEF Single

\* The values the tags have for a key, as parseCurriculumTags may find them.
found(tags, key) == {tag[2] : tag \in {t \in tags : t[1] = key}}
orNone(values) == IF values = {} THEN {None} ELSE values
readings(tags) ==
  [discipline : orNone(found(tags, "discipline")), phase : orNone(found(tags, "phase")),
   track : orNone(found(tags, "track")), skill : orNone(found(tags, "skill")),
   level : orNone(found(tags, "level"))]

LEMMA ParsedFromReadings ==
  \A tags : parseCurriculumTags(tags) =
              {IF curriculumMetadataSchema(m) THEN m ELSE None : m \in readings(tags)}
BY DEF parseCurriculumTags, readings, found, orNone

\* Whatever the tags are, reading them gives valid metadata or None.
LEMMA ParsedIsValid ==
  ASSUME NEW tags, NEW m \in parseCurriculumTags(tags)
  PROVE  m \in CurriculumMetadata \cup {None}
<1>1. PICK n \in readings(tags) : m = IF curriculumMetadataSchema(n) THEN n ELSE None
  BY ParsedFromReadings
<1>2. n = [discipline |-> n.discipline, phase |-> n.phase, track |-> n.track,
           skill |-> n.skill, level |-> n.level]
  BY DEF readings
<1> QED BY <1>1, <1>2, ValidMetadata

\* Tags that give one value per key are read in one way.
LEMMA ReadInOneWay ==
  ASSUME NEW tags, NEW m,
         m = [discipline |-> m.discipline, phase |-> m.phase, track |-> m.track,
              skill |-> m.skill, level |-> m.level],
         orNone(found(tags, "discipline")) = {m.discipline},
         orNone(found(tags, "phase")) = {m.phase},
         orNone(found(tags, "track")) = {m.track},
         orNone(found(tags, "skill")) = {m.skill},
         orNone(found(tags, "level")) = {m.level}
  PROVE  parseCurriculumTags(tags) = {IF curriculumMetadataSchema(m) THEN m ELSE None}
<1>1. readings(tags) = [discipline : {m.discipline}, phase : {m.phase}, track : {m.track},
                        skill : {m.skill}, level : {m.level}]
  BY DEF readings
<1>2. readings(tags) = {m}
  <2>1. m \in readings(tags)
    BY <1>1
  <2>2. ASSUME NEW n \in readings(tags)
        PROVE  n = m
    BY <1>1, <2>2
  <2> QED BY <2>1, <2>2
<1> QED BY <1>2, ParsedFromReadings

\* Tags that do not contradict each other are read in one way.
LEMMA SingleReadsOneWay ==
  ASSUME NEW tags, Single(tags)
  PROVE  Cardinality(parseCurriculumTags(tags)) = 1
<1>1. ASSUME NEW key
      PROVE  \E v : orNone(found(tags, key)) = {v}
  <2>1. CASE \E t \in tags : t[1] = key
    <3>1. PICK t \in tags : t[1] = key
      BY <2>1
    <3>2. {u \in tags : u[1] = key} = {t}
      BY <3>1 DEF Single
    <3>3. found(tags, key) = {t[2]}
      BY <3>2 DEF found
    <3> QED BY <3>3 DEF orNone
  <2>2. CASE ~ \E t \in tags : t[1] = key
    BY <2>2 DEF found, orNone
  <2> QED BY <2>1, <2>2
<1>2. PICK d, p, t, s, v :
         /\ orNone(found(tags, "discipline")) = {d} /\ orNone(found(tags, "phase")) = {p}
         /\ orNone(found(tags, "track")) = {t} /\ orNone(found(tags, "skill")) = {s}
         /\ orNone(found(tags, "level")) = {v}
  BY <1>1
<1> DEFINE m == [discipline |-> d, phase |-> p, track |-> t, skill |-> s, level |-> v]
<1>3. m = [discipline |-> m.discipline, phase |-> m.phase, track |-> m.track,
           skill |-> m.skill, level |-> m.level]
      /\ m.discipline = d /\ m.phase = p /\ m.track = t /\ m.skill = s /\ m.level = v
  OBVIOUS
<1> HIDE DEF m
<1>4. parseCurriculumTags(tags) = {IF curriculumMetadataSchema(m) THEN m ELSE None}
  BY <1>2, <1>3, ReadInOneWay
<1> QED BY <1>4, FS_Singleton

\* Metadata is read back from its own tags as it was (parseCurriculumTags after
\* createCurriculumTags).
LEMMA MetadataReadsBack ==
  ASSUME NEW m \in CurriculumMetadata
  PROVE  parseCurriculumTags(tagsOf(m)) = {m}
<1> DEFINE tags == tagsOf(m)
<1>1. /\ curriculumMetadataSchema(m)
      /\ m = [discipline |-> m.discipline, phase |-> m.phase, track |-> m.track,
              skill |-> m.skill, level |-> m.level]
  BY ValidMetadata
<1>2. \A t : t \in tags <=>
        \/ t = <<"discipline", m.discipline>> \/ t = <<"phase", m.phase>>
        \/ t = <<"track", m.track>> \/ t = <<"level", m.level>>
        \/ m.skill # None /\ t = <<"skill", m.skill>>
  BY TagsOfMetadata
<1> HIDE DEF tags
<1>3. /\ {t \in tags : t[1] = "discipline"} = {<<"discipline", m.discipline>>}
      /\ {t \in tags : t[1] = "phase"} = {<<"phase", m.phase>>}
      /\ {t \in tags : t[1] = "track"} = {<<"track", m.track>>}
      /\ {t \in tags : t[1] = "level"} = {<<"level", m.level>>}
      /\ {t \in tags : t[1] = "skill"} = IF m.skill = None THEN {} ELSE {<<"skill", m.skill>>}
  BY <1>2
<1>4. /\ found(tags, "discipline") = {m.discipline} /\ found(tags, "phase") = {m.phase}
      /\ found(tags, "track") = {m.track} /\ found(tags, "level") = {m.level}
      /\ found(tags, "skill") = IF m.skill = None THEN {} ELSE {m.skill}
  <2>1. /\ found(tags, "discipline") = {t[2] : t \in {<<"discipline", m.discipline>>}}
        /\ found(tags, "phase") = {t[2] : t \in {<<"phase", m.phase>>}}
        /\ found(tags, "track") = {t[2] : t \in {<<"track", m.track>>}}
        /\ found(tags, "level") = {t[2] : t \in {<<"level", m.level>>}}
    BY <1>3 DEF found
  <2>2. CASE m.skill = None
    <3>1. found(tags, "skill") = {}
      BY <1>3, <2>2 DEF found
    <3> QED BY <2>1, <2>2, <3>1
  <2>3. CASE m.skill # None
    <3>1. found(tags, "skill") = {t[2] : t \in {<<"skill", m.skill>>}}
      BY <1>3, <2>3 DEF found
    <3> QED BY <2>1, <2>3, <3>1
  <2> QED BY <2>2, <2>3
<1>5. /\ orNone(found(tags, "discipline")) = {m.discipline}
      /\ orNone(found(tags, "phase")) = {m.phase}
      /\ orNone(found(tags, "track")) = {m.track} /\ orNone(found(tags, "level")) = {m.level}
      /\ orNone(found(tags, "skill")) = {m.skill}
  BY <1>4 DEF orNone
<1>6. parseCurriculumTags(tags) = {IF curriculumMetadataSchema(m) THEN m ELSE None}
  BY <1>1, <1>5, ReadInOneWay
<1> QED BY <1>1, <1>6 DEF tags

-----------------------------------------------------------------------------
(* Rows, requests, pages and the seed keep their types, and no two of them    *)
(* work on the curriculum of one lesson.                                     *)

SeedState ==
  [rows : SUBSET Seeded, tags : SUBSET Seeded, at : Seeded \cup {None}, add : Seq(Tag)]

TypeInv ==
  /\ lesson \in [Lesson -> Row \cup {Absent}]
  /\ IsFiniteSet({l \in Lesson : lesson[l] # Absent})
  /\ call \in [Call -> Request \cup {Absent}]
  /\ DOMAIN page \subseteq {l \in Lesson : lesson[l] # Absent}
  /\ page \in [DOMAIN page -> Nat]
  /\ editor \in [Editor -> Form \cup {Absent}]
  /\ seed \in SeedState
  /\ told \in [Lesson -> CurriculumMetadata \cup {None}]
  /\ faults \in Nat
  /\ disturbed \in BOOLEAN

\* A call that is to write the curriculum of lesson l.
Syncs(c, l) == call[c] # Absent /\ call[c].lesson = l /\ call[c].curriculum # None

\* A call past its row has tags to write; one for a lesson that is not there yet creates it.
CallsFit ==
  \A c \in Call : call[c] # Absent =>
    /\ call[c].curriculum = None => call[c].pc = "row" /\ call[c].order # None
    /\ lesson[call[c].lesson] = Absent =>
         call[c].pc = "row" /\ call[c].order # None /\ call[c].curriculum # None

\* Two calls for one lesson are not about its creation, nor both about its curriculum.
CallsApart ==
  \A c, d \in Call :
    c # d /\ call[c] # Absent /\ call[d] # Absent /\ call[c].lesson = call[d].lesson =>
      /\ lesson[call[c].lesson] # Absent
      /\ call[c].curriculum = None \/ call[d].curriculum = None

\* A call for the curriculum of a lesson on an editor page is that page's save.
EditorsApart ==
  \A e \in Editor : editor[e] # Absent =>
    /\ lesson[editor[e].lesson] # Absent
    /\ \A f \in Editor \ {e} : editor[f] # Absent => editor[f].lesson # editor[e].lesson
    /\ \A c \in Call : Syncs(c, editor[e].lesson) => call[c].order = None /\ editor[e].saving

\* The seed works by itself, on lessons that are there, and adds tags to the one it is at.
SeedAlone ==
  /\ seed # seedRests =>
       (\A c \in Call : call[c] = Absent) /\ (\A e \in Editor : editor[e] = Absent)
  /\ \A l \in Seeded : lesson[l] # Absent
  /\ seed.at # None <=> seed.add # <<>>

\* What a writer was told is of a lesson that is there and that no call writes.
ToldApart ==
  \A l \in Lesson : told[l] # None => lesson[l] # Absent /\ \A c \in Call : ~ Syncs(c, l)

WorkInv == TypeInv /\ CallsFit /\ CallsApart /\ EditorsApart /\ SeedAlone /\ ToldApart

LEMMA Values ==
  /\ None \notin Nat /\ None \notin CurriculumMetadata /\ None \notin Lesson
  /\ None \notin Seeded
  /\ \A x \in Row : x # Absent
  /\ \A x \in Request : x # Absent
  /\ \A x \in Form : x # Absent
BY ValueAssumption, SeedAssumption

LEMMA RequestType ==
  ASSUME NEW l \in Lesson, NEW order \in Nat \cup {None}, NEW m \in CurriculumMetadata \cup {None}
  PROVE  /\ request(l, order, m) \in Request
         /\ request(l, order, m) # Absent
         /\ request(l, order, m).lesson = l /\ request(l, order, m).order = order
         /\ request(l, order, m).curriculum = m /\ request(l, order, m).pc = "row"
<1>1. <<>> \in Seq(Tag)
  OBVIOUS
<1>2. request(l, order, m) \in Request
  BY <1>1 DEF request, Request
<1>3. request(l, order, m) # Absent
  BY <1>2, Values
<1> QED BY <1>2, <1>3 DEF request

LEMMA OrdersType ==
  ASSUME NEW rows \in [Lesson -> Row \cup {Absent}]
  PROVE  /\ DOMAIN ordersOf(rows) = {l \in Lesson : rows[l] # Absent}
         /\ ordersOf(rows) \in [DOMAIN ordersOf(rows) -> Nat]
         /\ \A l \in Lesson : rows[l] # Absent => ordersOf(rows)[l] = rows[l].order
<1> DEFINE there == {l \in Lesson : rows[l] # Absent}
<1>1. \A l \in there : rows[l].order \in Nat
  BY DEF Row
<1>2. ordersOf(rows) = [l \in there |-> rows[l].order]
  BY DEF ordersOf
<1> QED BY <1>1, <1>2

\* The metadata a new lesson may start with is valid, whatever its neighbours' tags are.
LEMMA NewLessonValid == getDefaultCurriculum \subseteq CurriculumMetadata
<1> DEFINE default == createDefaultCurriculum(ProgramDiscipline)
           first == {l \in DOMAIN page : \A k \in DOMAIN page : page[l] <= page[k]}
<1>1. default \in CurriculumMetadata
  BY DefaultValid, ValueAssumption
<1>2. \A l \in first : \A m \in parseCurriculumTags(lesson[l].tags) :
        m \in CurriculumMetadata \cup {None}
  BY ParsedIsValid
<1>3. getDefaultCurriculum =
        IF first = {} THEN {default}
        ELSE {IF m = None THEN default ELSE m :
                m \in UNION {parseCurriculumTags(lesson[l].tags) : l \in first}}
  BY DEF getDefaultCurriculum
<1> HIDE DEF first, default
<1> QED BY <1>1, <1>2, <1>3

LEMMA EmptySeed ==
  /\ seedRests \in SeedState /\ seedStarted \in SeedState
  /\ seedRests.rows = {} /\ seedRests.tags = {} /\ seedRests.at = None /\ seedRests.add = <<>>
  /\ seedStarted.rows = Seeded /\ seedStarted.tags = Seeded
  /\ seedStarted.at = None /\ seedStarted.add = <<>>
<1>1. <<>> \in Seq(Tag)
  OBVIOUS
<1> QED BY <1>1 DEF seedRests, seedStarted, SeedState

LEMMA WorkStarts == Init => WorkInv
<1> SUFFICES ASSUME Init PROVE WorkInv
  OBVIOUS
<1>1. \A l \in Seeded : row(SeedOrder[l], tagsOf(SeedCurriculum[l])) \in Row
  <2> TAKE l \in Seeded
  <2>1. SeedOrder[l] \in Nat /\ SeedCurriculum[l] \in CurriculumMetadata
    BY SeedAssumption
  <2> QED BY <2>1, TagsOfMetadata DEF row, Row
<1>2. /\ lesson \in [Lesson -> Row \cup {Absent}]
      /\ \A l \in Seeded : lesson[l] # Absent
  BY <1>1, Values, SeedAssumption DEF Init
<1>3. /\ DOMAIN page \subseteq {l \in Lesson : lesson[l] # Absent}
      /\ page \in [DOMAIN page -> Nat]
  BY <1>2, OrdersType DEF Init
<1>5. IsFiniteSet({l \in Lesson : lesson[l] # Absent})
  <2>1. {l \in Lesson : lesson[l] # Absent} \subseteq Seeded
    BY DEF Init
  <2> QED BY <2>1, SeedAssumption, FS_Subset
<1>4. TypeInv
  BY <1>2, <1>3, <1>5, EmptySeed DEF Init, TypeInv
<1> QED
  BY <1>2, <1>4, EmptySeed DEF Init, WorkInv, CallsFit, CallsApart, EditorsApart, SeedAlone, ToldApart

\* The parts of WorkInv that a step changes nothing of.
LEMMA WorkUnchanged ==
  ASSUME WorkInv, UNCHANGED <<lesson, call, editor, seed, told>>
  PROVE  CallsFit' /\ CallsApart' /\ EditorsApart' /\ SeedAlone' /\ ToldApart'
BY DEF WorkInv, CallsFit, CallsApart, EditorsApart, SeedAlone, ToldApart, Syncs

LEMMA LoadWorks ==
  ASSUME WorkInv, LoadCourse
  PROVE  WorkInv'
<1>1. TypeInv'
  BY OrdersType DEF LoadCourse, WorkInv, TypeInv
<1>2. UNCHANGED <<lesson, call, editor, seed, told>>
  BY DEF LoadCourse
<1> QED BY <1>1, <1>2, WorkUnchanged DEF WorkInv

LEMMA MoveWorks ==
  ASSUME WorkInv, seed = seedRests, MoveLesson
  PROVE  WorkInv'
<1>1. PICK l \in DOMAIN page : \E k \in neighbours(l) : moveLesson(l, k)
  BY DEF MoveLesson
<1>2. PICK k \in neighbours(l) : moveLesson(l, k)
  BY <1>1
<1>3. PICK c \in idle, d \in idle :
         /\ c # d
         /\ call' = [call EXCEPT ![c] = request(l, page[k], None), ![d] = request(k, page[l], None)]
         /\ disturbed' \in BOOLEAN
         /\ UNCHANGED <<lesson, page, editor, seed, told, faults>>
  BY <1>2 DEF moveLesson
<1>4. /\ k \in DOMAIN page /\ l \in Lesson /\ k \in Lesson
      /\ lesson[l] # Absent /\ lesson[k] # Absent
      /\ page[l] \in Nat /\ page[k] \in Nat
  BY DEF WorkInv, TypeInv, neighbours
<1> DEFINE q == request(l, page[k], None)
           r == request(k, page[l], None)
<1>5. /\ q \in Request /\ q # Absent /\ q.lesson = l /\ q.curriculum = None /\ q.pc = "row"
      /\ r \in Request /\ r # Absent /\ r.lesson = k /\ r.curriculum = None /\ r.pc = "row"
      /\ q.order # None /\ r.order # None
  BY <1>4, RequestType, Values
<1> HIDE DEF q, r
<1>6. /\ c \in Call /\ d \in Call /\ call[c] = Absent /\ call[d] = Absent
      /\ call' = [call EXCEPT ![c] = q, ![d] = r]
  BY <1>3 DEF idle, q, r
<1>7. /\ call' \in [Call -> Request \cup {Absent}]
      /\ call'[c] = q /\ call'[d] = r
      /\ \A b \in Call \ {c, d} : call'[b] = call[b]
  BY <1>3, <1>5, <1>6 DEF WorkInv, TypeInv
<1>8. TypeInv'
  BY <1>3, <1>7 DEF WorkInv, TypeInv
<1>9. \A b \in Call : \A x : Syncs(b, x)' => Syncs(b, x) /\ call'[b] = call[b]
  BY <1>5, <1>7 DEF Syncs
<1>10. CallsFit'
  BY <1>3, <1>4, <1>5, <1>7 DEF WorkInv, CallsFit
<1>11. CallsApart'
  BY <1>3, <1>4, <1>5, <1>7 DEF WorkInv, CallsApart
<1>12. EditorsApart'
  BY <1>3, <1>9 DEF WorkInv, EditorsApart
<1>13. SeedAlone' /\ ToldApart'
  BY <1>3, <1>9 DEF WorkInv, SeedAlone, ToldApart
<1> QED BY <1>8, <1>10, <1>11, <1>12, <1>13 DEF WorkInv

LEMMA CreateWorks ==
  ASSUME WorkInv, seed = seedRests, NEW l \in Lesson, createLesson(l)
  PROVE  WorkInv'
<1> DEFINE place == Cardinality(DOMAIN page) + 1
<1>1. PICK c \in idle, m \in getDefaultCurriculum :
         /\ call' = [call EXCEPT ![c] = request(l, place, m)]
         /\ disturbed' \in BOOLEAN
  BY DEF createLesson
<1>2. /\ lesson[l] = Absent
      /\ \A b \in Call : call[b] # Absent => call[b].lesson # l
      /\ UNCHANGED <<lesson, page, editor, seed, told, faults>>
  BY DEF createLesson, pending, idle
<1>3. place \in Nat /\ place # None
  <2>1. IsFiniteSet(DOMAIN page)
    BY FS_Subset DEF WorkInv, TypeInv
  <2>2. Cardinality(DOMAIN page) \in Nat
    BY <2>1, FS_CardinalityType
  <2> QED BY <2>2, Values
<1> DEFINE q == request(l, place, m)
<1> HIDE DEF place
<1>4. /\ q \in Request /\ q # Absent /\ q.lesson = l /\ q.order # None
      /\ q.curriculum # None /\ q.pc = "row"
  BY <1>3, RequestType, NewLessonValid, Values
<1> HIDE DEF q
<1>5. c \in Call /\ call[c] = Absent /\ call' = [call EXCEPT ![c] = q]
  BY <1>1 DEF idle, q
<1>6. /\ call' \in [Call -> Request \cup {Absent}]
      /\ call'[c] = q
      /\ \A b \in Call \ {c} : call'[b] = call[b]
  BY <1>4, <1>5 DEF WorkInv, TypeInv
<1>7. TypeInv'
  BY <1>1, <1>2, <1>6 DEF WorkInv, TypeInv
<1>8. \A b \in Call : \A x \in Lesson \ {l} :
        Syncs(b, x)' => Syncs(b, x) /\ call'[b] = call[b]
  BY <1>4, <1>6 DEF Syncs
<1>9. CallsFit'
  BY <1>2, <1>4, <1>6 DEF WorkInv, CallsFit
<1>10. CallsApart'
  BY <1>2, <1>4, <1>6 DEF WorkInv, CallsApart
<1>11. EditorsApart'
  <2>1. \A e \in Editor : editor[e] # Absent => editor[e].lesson \in Lesson \ {l}
    BY <1>2 DEF WorkInv, TypeInv, EditorsApart, Form
  <2> QED BY <1>2, <1>8, <2>1 DEF WorkInv, EditorsApart
<1>12. SeedAlone'
  BY <1>2 DEF WorkInv, SeedAlone
<1>13. ToldApart'
  <2>1. told[l] = None
    BY <1>2 DEF WorkInv, ToldApart
  <2> QED BY <1>2, <1>8, <2>1 DEF WorkInv, ToldApart
<1> QED BY <1>7, <1>9, <1>10, <1>11, <1>12, <1>13 DEF WorkInv

LEMMA OpenWorks ==
  ASSUME WorkInv, NEW e \in Editor, NEW l \in Edited, OpenEditor(e, l)
  PROVE  WorkInv'
<1>1. PICK m \in parseCurriculumTags(lesson[l].tags) :
         editor' = [editor EXCEPT ![e] =
           [lesson |-> l, saving |-> FALSE,
            form |-> IF m = None THEN createDefaultCurriculum(ProgramDiscipline) ELSE m]]
  BY DEF OpenEditor
<1> DEFINE filled == IF m = None THEN createDefaultCurriculum(ProgramDiscipline) ELSE m
           form == [lesson |-> l, saving |-> FALSE, form |-> filled]
<1>2. filled \in CurriculumMetadata
  BY <1>1, ParsedIsValid, DefaultValid, ValueAssumption
<1>3. l \in Lesson
  BY SeedAssumption
<1> HIDE DEF filled
<1>4. form \in Form /\ form # Absent /\ form.lesson = l
  BY <1>2, <1>3, Values DEF Form
<1>5. editor' = [editor EXCEPT ![e] = form]
  BY <1>1 DEF filled
<1> HIDE DEF form
<1>6. /\ editor[e] = Absent /\ lesson[l] # Absent /\ seed = seedRests
      /\ \A c \in Call : ~ Syncs(c, l)
      /\ \A f \in Editor : editor[f] # Absent => editor[f].lesson # l
      /\ UNCHANGED <<lesson, call, page, sent, seed, told, disturbed, faults>>
  BY DEF OpenEditor, alone, pending, idle, Syncs
<1>7. /\ editor' \in [Editor -> Form \cup {Absent}]
      /\ editor'[e] = form
      /\ \A f \in Editor \ {e} : editor'[f] = editor[f]
  BY <1>4, <1>5 DEF WorkInv, TypeInv
<1>8. TypeInv'
  BY <1>6, <1>7 DEF WorkInv, TypeInv
<1>9. \A c \in Call : \A x : Syncs(c, x)' <=> Syncs(c, x)
  BY <1>6 DEF Syncs
<1>10. CallsFit' /\ CallsApart'
  BY <1>6 DEF WorkInv, CallsFit, CallsApart
<1>11. EditorsApart'
  BY <1>4, <1>6, <1>7, <1>9 DEF WorkInv, EditorsApart
<1>12. SeedAlone' /\ ToldApart'
  BY <1>6, <1>9 DEF WorkInv, SeedAlone, ToldApart
<1> QED BY <1>8, <1>10, <1>11, <1>12 DEF WorkInv

LEMMA EditWorks ==
  ASSUME WorkInv, NEW e \in Editor, EditForm(e)
  PROVE  WorkInv'
<1>1. PICK m \in edits(editor[e].form) : editor' = [editor EXCEPT ![e].form = m]
  BY DEF EditForm
<1>2. /\ editor[e] \in Form /\ editor[e] # Absent
      /\ UNCHANGED <<lesson, call, page, sent, seed, told, disturbed, faults>>
  BY DEF EditForm, WorkInv, TypeInv
<1>3. m \in CurriculumMetadata
  BY <1>1, <1>2, EditsValid DEF Form
<1>4. \A f \in Form : /\ [f EXCEPT !.form = m] \in Form
                      /\ [f EXCEPT !.form = m].lesson = f.lesson
                      /\ [f EXCEPT !.form = m].saving = f.saving
  BY <1>3 DEF Form
<1>5. /\ editor' \in [Editor -> Form \cup {Absent}]
      /\ \A f \in Editor : (editor'[f] # Absent) <=> (editor[f] # Absent)
      /\ \A f \in Editor : editor[f] # Absent =>
           editor'[f].lesson = editor[f].lesson /\ editor'[f].saving = editor[f].saving
  BY <1>1, <1>2, <1>4, Values DEF WorkInv, TypeInv
<1>6. TypeInv'
  BY <1>2, <1>5 DEF WorkInv, TypeInv
<1>7. CallsFit' /\ CallsApart' /\ SeedAlone' /\ ToldApart'
  BY <1>2, <1>5 DEF WorkInv, CallsFit, CallsApart, SeedAlone, ToldApart, Syncs
<1>8. EditorsApart'
  BY <1>2, <1>5 DEF WorkInv, EditorsApart, Syncs
<1> QED BY <1>6, <1>7, <1>8 DEF WorkInv

LEMMA CloseWorks ==
  ASSUME WorkInv, NEW e \in Editor, CloseEditor(e)
  PROVE  WorkInv'
<1>1. /\ editor' = [editor EXCEPT ![e] = Absent]
      /\ UNCHANGED <<lesson, call, page, sent, seed, told, disturbed, faults>>
  BY DEF CloseEditor
<1>2. /\ editor' \in [Editor -> Form \cup {Absent}]
      /\ \A f \in Editor : editor'[f] # Absent => editor[f] # Absent /\ editor'[f] = editor[f]
  BY <1>1 DEF WorkInv, TypeInv
<1>3. TypeInv'
  BY <1>1, <1>2 DEF WorkInv, TypeInv
<1>4. CallsFit' /\ CallsApart' /\ SeedAlone' /\ ToldApart'
  BY <1>1, <1>2 DEF WorkInv, CallsFit, CallsApart, SeedAlone, ToldApart, Syncs
<1>5. EditorsApart'
  BY <1>1, <1>2 DEF WorkInv, EditorsApart, Syncs
<1> QED BY <1>3, <1>4, <1>5 DEF WorkInv

LEMMA SaveWorks ==
  ASSUME WorkInv, seed = seedRests, NEW e \in Editor, onSave(e)
  PROVE  WorkInv'
<1>1. PICK c \in idle : save(e, c)
  BY DEF onSave
<1>2. PICK l \in Lesson, m \in CurriculumMetadata :
        /\ l = editor[e].lesson /\ m = editor[e].form
        /\ editor[e] \in Form /\ editor[e] # Absent /\ ~ editor[e].saving
        /\ lesson[l] # Absent
  BY DEF onSave, WorkInv, TypeInv, EditorsApart, Form
<1> DEFINE q == request(l, None, m)
<1>3. /\ q \in Request /\ q # Absent /\ q.lesson = l /\ q.order = None
      /\ q.curriculum # None /\ q.pc = "row"
  <2>1. m # None /\ <<>> \in Seq(Tag)
    BY Values
  <2>2. q \in Request
    BY <2>1 DEF request, Request
  <2> QED BY <2>1, <2>2, Values DEF request
<1>4. /\ c \in Call /\ call[c] = Absent /\ call' = [call EXCEPT ![c] = q]
      /\ editor' = [editor EXCEPT ![e].saving = TRUE]
      /\ told' = [told EXCEPT ![l] = None]
      /\ UNCHANGED <<lesson, page, sent, seed, disturbed, faults>>
  BY <1>1, <1>2 DEF idle, save
<1> HIDE DEF q
<1>5. \A b \in Call : ~ Syncs(b, l)
  BY <1>2 DEF WorkInv, EditorsApart
<1>6. /\ call' \in [Call -> Request \cup {Absent}]
      /\ call'[c] = q
      /\ \A b \in Call \ {c} : call'[b] = call[b]
  BY <1>3, <1>4 DEF WorkInv, TypeInv
<1>7. \A f \in Form : /\ [f EXCEPT !.saving = TRUE] \in Form
                      /\ [f EXCEPT !.saving = TRUE].lesson = f.lesson
                      /\ [f EXCEPT !.saving = TRUE].saving
  BY DEF Form
<1>8. /\ editor' \in [Editor -> Form \cup {Absent}]
      /\ editor'[e] # Absent /\ editor'[e].lesson = l /\ editor'[e].saving
      /\ \A f \in Editor \ {e} : editor'[f] = editor[f]
  BY <1>2, <1>4, <1>7, Values DEF WorkInv, TypeInv
<1>9. TypeInv'
  <2>1. told' \in [Lesson -> CurriculumMetadata \cup {None}]
    BY <1>4 DEF WorkInv, TypeInv
  <2> QED BY <1>4, <1>6, <1>8, <2>1 DEF WorkInv, TypeInv
<1>10. \A b \in Call : \A x \in Lesson \ {l} :
         Syncs(b, x)' => Syncs(b, x) /\ call'[b] = call[b]
  BY <1>3, <1>6 DEF Syncs
<1>11. CallsFit'
  BY <1>2, <1>3, <1>4, <1>6 DEF WorkInv, CallsFit
<1>12. CallsApart'
  <2>1. \A b \in Call : call[b] # Absent /\ call[b].lesson = l => call[b].curriculum = None
    BY <1>5 DEF Syncs
  <2> QED BY <1>2, <1>3, <1>4, <1>6, <2>1 DEF WorkInv, CallsApart
<1>13. EditorsApart'
  <2>1. \A f \in Editor \ {e} : editor[f] # Absent => editor[f].lesson \in Lesson \ {l}
    BY <1>2 DEF WorkInv, TypeInv, EditorsApart, Form
  <2>2. \A b \in Call : Syncs(b, l)' => call'[b].order = None
    BY <1>3, <1>5, <1>6 DEF Syncs
  <2> QED BY <1>2, <1>4, <1>8, <1>10, <2>1, <2>2 DEF WorkInv, EditorsApart
<1>14. SeedAlone'
  BY <1>4 DEF WorkInv, SeedAlone
<1>15. ToldApart'
  BY <1>2, <1>4, <1>10 DEF WorkInv, TypeInv, ToldApart
<1> QED BY <1>9, <1>11, <1>12, <1>13, <1>14, <1>15 DEF WorkInv

\* A call that is over leaves the lesson it wrote to the page that saved it.
LEMMA EndedWorks ==
  ASSUME WorkInv, NEW c \in Call, call[c] # Absent,
         call' = [call EXCEPT ![c] = Absent], editor' = unlocked(c), seed' = seed,
         \A l \in Lesson : lesson'[l] = Absent <=> lesson[l] = Absent
  PROVE  /\ call' \in [Call -> Request \cup {Absent}]
         /\ editor' \in [Editor -> Form \cup {Absent}]
         /\ CallsFit' /\ CallsApart' /\ EditorsApart' /\ SeedAlone'
         /\ seed = seedRests
         /\ \A b \in Call : call'[b] # Absent => b # c /\ call[b] # Absent /\ call'[b] = call[b]
<1>1. /\ call \in [Call -> Request \cup {Absent}]
      /\ editor \in [Editor -> Form \cup {Absent}]
      /\ \A b \in Call : call[b] # Absent => call[b].lesson \in Lesson
      /\ \A e \in Editor : editor[e] # Absent => editor[e].lesson \in Lesson
  BY DEF WorkInv, TypeInv, Request, Form
<1>2. /\ call' \in [Call -> Request \cup {Absent}]
      /\ \A b \in Call : call'[b] # Absent => b # c /\ call[b] # Absent /\ call'[b] = call[b]
  BY <1>1
<1>3. \A f \in Form : /\ [f EXCEPT !.saving = FALSE] \in Form
                      /\ [f EXCEPT !.saving = FALSE].lesson = f.lesson
  BY DEF Form
<1>4. /\ editor' \in [Editor -> Form \cup {Absent}]
      /\ \A e \in Editor :
           /\ (editor'[e] # Absent) <=> (editor[e] # Absent)
           /\ editor[e] # Absent => editor'[e].lesson = editor[e].lesson
           /\ \/ editor'[e] = editor[e]
              \/ call[c].order = None /\ editor[e] # Absent /\ editor[e].lesson = call[c].lesson
  <2>1. \A e \in Editor :
          \/ editor'[e] = editor[e]
          \/ /\ call[c].order = None /\ editor[e] # Absent /\ editor[e].lesson = call[c].lesson
             /\ editor'[e] = [editor[e] EXCEPT !.saving = FALSE]
    BY DEF unlocked
  <2>2. editor' = [e \in Editor |-> editor'[e]]
    BY DEF unlocked
  <2>3. \A e \in Editor : editor'[e] \in Form \cup {Absent}
    BY <1>1, <1>3, <2>1
  <2>4. editor' \in [Editor -> Form \cup {Absent}]
    BY <2>2, <2>3
  <2>5. \A e \in Editor : editor[e] # Absent => editor[e] \in Form
    BY <1>1
  <2>6. ASSUME NEW e \in Editor, editor[e] # Absent,
               editor'[e] = [editor[e] EXCEPT !.saving = FALSE]
        PROVE  editor'[e] # Absent /\ editor'[e].lesson = editor[e].lesson
    BY <1>3, <2>5, <2>6, Values
  <2>7. \A e \in Editor :
          /\ (editor'[e] # Absent) <=> (editor[e] # Absent)
          /\ editor[e] # Absent => editor'[e].lesson = editor[e].lesson
    <3> TAKE e \in Editor
    <3>1. CASE editor'[e] = editor[e]
      BY <3>1
    <3>2. CASE editor'[e] # editor[e]
      BY <2>1, <2>6, <3>2
    <3> QED BY <3>1, <3>2
  <2>8. \A e \in Editor :
          \/ editor'[e] = editor[e]
          \/ call[c].order = None /\ editor[e] # Absent /\ editor[e].lesson = call[c].lesson
    BY <2>1
  <2> QED BY <2>4, <2>7, <2>8
<1>5. \A b \in Call : \A x : Syncs(b, x)' => b # c /\ Syncs(b, x) /\ call'[b] = call[b]
  BY <1>2 DEF Syncs
<1>6. CallsFit'
  BY <1>1, <1>2 DEF WorkInv, CallsFit
<1>7. CallsApart'
  BY <1>1, <1>2 DEF WorkInv, CallsApart
<1>8. EditorsApart'
  <2> SUFFICES ASSUME NEW e \in Editor, editor'[e] # Absent
               PROVE  /\ lesson'[editor'[e].lesson] # Absent
                      /\ \A f \in Editor \ {e} :
                           editor'[f] # Absent => editor'[f].lesson # editor'[e].lesson
                      /\ \A b \in Call :
                           call'[b] # Absent /\ call'[b].lesson = editor'[e].lesson
                           /\ call'[b].curriculum # None
                             => call'[b].order = None /\ editor'[e].saving
    BY DEF EditorsApart, Syncs
  <2>1. /\ editor[e] # Absent /\ editor'[e].lesson = editor[e].lesson
        /\ lesson[editor[e].lesson] # Absent
    BY <1>4 DEF WorkInv, EditorsApart
  <2>2. \A f \in Editor \ {e} : editor'[f] # Absent => editor'[f].lesson # editor'[e].lesson
    BY <1>4, <2>1 DEF WorkInv, EditorsApart
  <2>3. ASSUME NEW b \in Call, call'[b] # Absent, call'[b].lesson = editor'[e].lesson,
               call'[b].curriculum # None
        PROVE  call'[b].order = None /\ editor'[e].saving
    <3>1. b # c /\ Syncs(b, editor[e].lesson) /\ call'[b] = call[b]
      BY <1>2, <2>1, <2>3 DEF Syncs
    <3>2. call[b].order = None /\ editor[e].saving
      BY <2>1, <3>1 DEF WorkInv, EditorsApart
    <3>3. CASE editor'[e] = editor[e]
      BY <3>1, <3>2, <3>3
    <3>4. CASE call[c].order = None /\ editor[e].lesson = call[c].lesson
      <4>1. call[c].curriculum # None
        BY <3>4 DEF WorkInv, CallsFit
      <4> QED BY <3>1, <3>4, <4>1 DEF WorkInv, CallsApart, Syncs
    <3> QED BY <1>4, <2>1, <3>3, <3>4
  <2> QED BY <1>1, <2>1, <2>2, <2>3
<1>9. seed = seedRests
  BY DEF WorkInv, SeedAlone
<1>10. SeedAlone'
  BY <1>9, SeedAssumption DEF WorkInv, SeedAlone
<1> QED BY <1>2, <1>4, <1>6, <1>7, <1>8, <1>9, <1>10

\* A call that goes on with its tags stays the only one to write them.
LEMMA SyncingWorks ==
  ASSUME WorkInv, NEW c \in Call, call[c] # Absent, NEW q \in Request,
         call' = [call EXCEPT ![c] = q],
         q.lesson = call[c].lesson, q.order = call[c].order, q.curriculum = call[c].curriculum,
         q.curriculum # None,
         \A l \in Lesson : lesson[l] # Absent => lesson'[l] # Absent,
         lesson'[call[c].lesson] # Absent,
         UNCHANGED <<editor, seed, told>>
  PROVE  /\ call' \in [Call -> Request \cup {Absent}]
         /\ call'[c] = q
         /\ \A b \in Call \ {c} : call'[b] = call[b]
         /\ CallsFit' /\ CallsApart' /\ EditorsApart' /\ SeedAlone' /\ ToldApart'
<1>1. /\ call \in [Call -> Request \cup {Absent}]
      /\ \A b \in Call : call[b] # Absent => call[b].lesson \in Lesson
      /\ \A e \in Editor : editor[e] # Absent => editor[e].lesson \in Lesson
      /\ q # Absent
  BY Values DEF WorkInv, TypeInv, Request, Form
<1>2. /\ call' \in [Call -> Request \cup {Absent}]
      /\ call'[c] = q
      /\ \A b \in Call \ {c} : call'[b] = call[b]
  BY <1>1
<1>3. \A b \in Call : /\ (call'[b] # Absent) <=> (call[b] # Absent)
                      /\ call[b] # Absent =>
                           /\ call'[b].lesson = call[b].lesson
                           /\ call'[b].order = call[b].order
                           /\ call'[b].curriculum = call[b].curriculum
  BY <1>1, <1>2
<1>4. \A b \in Call : \A x : Syncs(b, x)' <=> Syncs(b, x)
  BY <1>3 DEF Syncs
<1>5. CallsFit'
  BY <1>1, <1>2 DEF WorkInv, CallsFit
<1>6. CallsApart'
  BY <1>1, <1>3 DEF WorkInv, CallsApart
<1>7. EditorsApart'
  BY <1>1, <1>3 DEF WorkInv, EditorsApart, Syncs
<1>8. SeedAlone'
  BY <1>3, SeedAssumption DEF WorkInv, SeedAlone
<1>9. ToldApart'
  BY <1>4 DEF WorkInv, ToldApart
<1> QED BY <1>2, <1>5, <1>6, <1>7, <1>8, <1>9

\* One lesson more is still finitely many, and a lesson that was there stays.
LEMMA LessonWritten ==
  ASSUME WorkInv, NEW l \in Lesson, NEW r \in Row, lesson' = [lesson EXCEPT ![l] = r]
  PROVE  /\ lesson' \in [Lesson -> Row \cup {Absent}]
         /\ IsFiniteSet({k \in Lesson : lesson'[k] # Absent})
         /\ \A k \in Lesson : lesson[k] # Absent => lesson'[k] # Absent
         /\ lesson'[l] = r /\ r # Absent
         /\ \A k \in Lesson \ {l} : lesson'[k] = lesson[k]
<1>1. lesson \in [Lesson -> Row \cup {Absent}] /\ r # Absent
  BY Values DEF WorkInv, TypeInv
<1>2. {k \in Lesson : lesson'[k] # Absent} \subseteq {k \in Lesson : lesson[k] # Absent} \cup {l}
  BY <1>1
<1>3. IsFiniteSet({k \in Lesson : lesson[k] # Absent} \cup {l})
  BY FS_AddElement DEF WorkInv, TypeInv
<1>4. IsFiniteSet({k \in Lesson : lesson'[k] # Absent})
  BY <1>2, <1>3, FS_Subset
<1> QED BY <1>1, <1>4

LEMMA PageAnswered ==
  ASSUME WorkInv, NEW c \in Call, answers(c, lesson'),
         lesson' \in [Lesson -> Row \cup {Absent}],
         \A l \in Lesson : lesson[l] # Absent => lesson'[l] # Absent
  PROVE  /\ DOMAIN page' \subseteq {l \in Lesson : lesson'[l] # Absent}
         /\ page' \in [DOMAIN page' -> Nat]
<1>1. page' = ordersOf(lesson') \/ page' = page
  BY DEF answers
<1> QED BY <1>1, OrdersType DEF WorkInv, TypeInv

\* The row a call writes.
LEMMA WrittenRow ==
  ASSUME WorkInv, NEW c \in Call, call[c] # Absent
  PROVE  /\ call[c].lesson \in Lesson
         /\ written(c) \in Row
         /\ call[c].order = None =>
              lesson[call[c].lesson] # Absent /\ written(c) = lesson[call[c].lesson]
         /\ call[c].order # None => written(c).order = call[c].order
         /\ lesson[call[c].lesson] # Absent => written(c).tags = lesson[call[c].lesson].tags
         /\ lesson[call[c].lesson] = Absent => written(c).tags = {}
<1> DEFINE l == call[c].lesson
<1>1. l \in Lesson /\ call[c].order \in Nat \cup {None}
  BY DEF WorkInv, TypeInv, Request
<1>2. CASE call[c].order = None
  <2>1. lesson[l] # Absent /\ lesson[l] \in Row
    BY <1>1, <1>2 DEF WorkInv, TypeInv, CallsFit
  <2> QED BY <1>1, <1>2, <2>1 DEF written
<1>3. CASE call[c].order # None
  <2> DEFINE tags == IF lesson[l] = Absent THEN {} ELSE lesson[l].tags
  <2>1. tags \in SUBSET Tag
    BY <1>1 DEF WorkInv, TypeInv, Row
  <2>2. written(c) = row(call[c].order, tags)
    BY <1>3 DEF written
  <2> HIDE DEF tags
  <2>3. written(c) \in Row /\ written(c).order = call[c].order /\ written(c).tags = tags
    BY <1>1, <1>3, <2>1, <2>2 DEF row, Row
  <2> QED BY <1>1, <1>3, <2>3 DEF tags
<1> QED BY <1>2, <1>3

LEMMA WriteWorks ==
  ASSUME WorkInv, NEW c \in Call, WriteRow(c)
  PROVE  WorkInv'
<1>1. /\ call[c] # Absent /\ call[c].pc = "row"
      /\ lesson' = [lesson EXCEPT ![call[c].lesson] = written(c)]
      /\ UNCHANGED <<seed, told, disturbed, faults>>
  BY DEF WriteRow, At
<1>2. /\ lesson' \in [Lesson -> Row \cup {Absent}]
      /\ IsFiniteSet({k \in Lesson : lesson'[k] # Absent})
      /\ \A k \in Lesson : lesson[k] # Absent => lesson'[k] # Absent
      /\ call[c].lesson \in Lesson /\ lesson'[call[c].lesson] # Absent
      /\ \A k \in Lesson \ {call[c].lesson} : lesson'[k] = lesson[k]
  BY <1>1, WrittenRow, LessonWritten
<1>3. CASE call[c].curriculum = None
  <2>1. answers(c, lesson')
    BY <1>3 DEF WriteRow
  <2>2. call' = [call EXCEPT ![c] = Absent] /\ editor' = unlocked(c)
    BY <2>1 DEF answers
  <2>3. lesson[call[c].lesson] # Absent
    BY <1>1, <1>3 DEF WorkInv, CallsFit
  <2>4. \A l \in Lesson : lesson'[l] = Absent <=> lesson[l] = Absent
    BY <1>2, <2>3
  <2>5. /\ call' \in [Call -> Request \cup {Absent}]
        /\ editor' \in [Editor -> Form \cup {Absent}]
        /\ CallsFit' /\ CallsApart' /\ EditorsApart' /\ SeedAlone'
        /\ \A b \in Call : call'[b] # Absent => call[b] # Absent /\ call'[b] = call[b]
    BY <1>1, <2>2, <2>4, EndedWorks
  <2>6. TypeInv'
    BY <1>1, <1>2, <2>1, <2>5, PageAnswered DEF WorkInv, TypeInv
  <2>7. ToldApart'
    BY <1>1, <1>2, <2>5 DEF WorkInv, ToldApart, Syncs
  <2> QED BY <2>5, <2>6, <2>7 DEF WorkInv
<1>4. CASE call[c].curriculum # None
  <2>1. call' = [call EXCEPT ![c].pc = "tags"] /\ UNCHANGED <<page, sent, editor>>
    BY <1>4 DEF WriteRow
  <2>2. PICK q : q = [call[c] EXCEPT !.pc = "tags"]
    OBVIOUS
  <2>3. call[c] \in Request
    BY <1>1 DEF WorkInv, TypeInv
  <2>4. /\ q \in Request /\ q.lesson = call[c].lesson /\ q.order = call[c].order
        /\ q.curriculum = call[c].curriculum
    BY <2>2, <2>3 DEF Request
  <2>5. call' = [call EXCEPT ![c] = q]
    BY <2>1, <2>2
  <2>6. /\ call' \in [Call -> Request \cup {Absent}]
        /\ CallsFit' /\ CallsApart' /\ EditorsApart' /\ SeedAlone' /\ ToldApart'
    BY <1>1, <1>2, <1>4, <2>1, <2>4, <2>5, SyncingWorks
  <2>7. TypeInv'
    BY <1>1, <1>2, <2>1, <2>6 DEF WorkInv, TypeInv
  <2> QED BY <2>6, <2>7 DEF WorkInv
<1> QED BY <1>3, <1>4

\* A call that has tags to write has a lesson and metadata.
LEMMA SyncingCall ==
  ASSUME WorkInv, NEW c \in Call, call[c] # Absent, call[c].pc # "row"
  PROVE  /\ call[c] \in Request /\ call[c].lesson \in Lesson
         /\ call[c].curriculum \in CurriculumMetadata /\ call[c].curriculum # None
         /\ lesson[call[c].lesson] \in Row /\ lesson[call[c].lesson] # Absent
         /\ Syncs(c, call[c].lesson)
         /\ seed = seedRests
BY DEF WorkInv, TypeInv, CallsFit, SeedAlone, Request, Syncs

\* What one statement of the sync makes of its call.
LEMMA SyncStatements ==
  ASSUME WorkInv, NEW c \in Call, ReadTags(c) \/ RemoveTags(c) \/ AddTag(c)
  PROVE  \E q \in Request :
           /\ call' = [call EXCEPT ![c] = q]
           /\ q.lesson = call[c].lesson /\ q.order = call[c].order
           /\ q.curriculum = call[c].curriculum
           /\ \/ /\ ReadTags(c)
                 /\ q.add = createCurriculumTags(call[c].curriculum)
                 /\ q.remove = managedExisting(lesson[call[c].lesson].tags)
                                 \ tagsOf(call[c].curriculum)
                 /\ q.pc = IF q.remove = {} THEN "add" ELSE "remove"
                 /\ lesson' = lesson
              \/ /\ RemoveTags(c)
                 /\ q.pc = "add" /\ q.add = call[c].add
                 /\ lesson' = [lesson EXCEPT ![call[c].lesson] =
                      [@ EXCEPT !.tags = lesson[call[c].lesson].tags \ call[c].remove]]
              \/ /\ AddTag(c)
                 /\ call[c].add \in Seq(Tag) \ {<<>>}
                 /\ q.pc = "add" /\ q.add = Tail(call[c].add)
                 /\ lesson' = [lesson EXCEPT ![call[c].lesson] =
                      [@ EXCEPT !.tags = lesson[call[c].lesson].tags \cup {Head(call[c].add)}]]
<1>1. call[c] # Absent /\ call[c].pc # "row"
  BY DEF ReadTags, RemoveTags, AddTag, At
<1>2. /\ call[c] \in Request /\ call[c].curriculum \in CurriculumMetadata
      /\ call[c].curriculum # None /\ lesson[call[c].lesson] \in Row
  BY <1>1, SyncingCall
<1>3. /\ call[c].add \in Seq(Tag) /\ call[c].remove \subseteq Tag
      /\ lesson[call[c].lesson].tags \subseteq Tag
  BY <1>2 DEF Request, Row
<1>4. CASE ReadTags(c)
  <2> DEFINE tags == managedExisting(lesson[call[c].lesson].tags) \ tagsOf(call[c].curriculum)
  <2>1. PICK desired, remove, pc :
           /\ desired = createCurriculumTags(call[c].curriculum) /\ remove = tags
           /\ pc = IF remove = {} THEN "add" ELSE "remove"
    OBVIOUS
  <2>2. /\ call' = [call EXCEPT ![c].add = desired, ![c].remove = remove, ![c].pc = pc]
        /\ lesson' = lesson
    BY <1>2, <1>4, <2>1 DEF ReadTags, desiredNames, tagsOf
  <2>3. desired \in Seq(Tag) /\ remove \subseteq Tag /\ pc \in {"add", "remove"}
    BY <1>2, <1>3, <2>1, TagsOfMetadata DEF managedExisting
  <2>4. PICK q : q = [call[c] EXCEPT !.add = desired, !.remove = remove, !.pc = pc]
    OBVIOUS
  <2>5. /\ q \in Request /\ q.lesson = call[c].lesson /\ q.order = call[c].order
        /\ q.curriculum = call[c].curriculum /\ q.add = desired /\ q.remove = remove /\ q.pc = pc
    BY <1>2, <2>3, <2>4 DEF Request
  <2>6. call' = [call EXCEPT ![c] = q]
    BY <2>2, <2>4
  <2> QED BY <1>4, <2>1, <2>2, <2>5, <2>6
<1>5. CASE RemoveTags(c)
  <2>1. PICK q : q = [call[c] EXCEPT !.pc = "add", !.remove = {}]
    OBVIOUS
  <2>2. /\ q \in Request /\ q.lesson = call[c].lesson /\ q.order = call[c].order
        /\ q.curriculum = call[c].curriculum /\ q.add = call[c].add /\ q.pc = "add"
    BY <1>2, <2>1 DEF Request
  <2>3. call' = [call EXCEPT ![c] = q]
    BY <1>5, <2>1 DEF RemoveTags
  <2>4. lesson' = [lesson EXCEPT ![call[c].lesson] =
          [@ EXCEPT !.tags = lesson[call[c].lesson].tags \ call[c].remove]]
    BY <1>5 DEF RemoveTags
  <2> QED BY <1>5, <2>2, <2>3, <2>4
<1>6. CASE AddTag(c)
  <2>1. PICK q : q = [call[c] EXCEPT !.add = Tail(@)]
    OBVIOUS
  <2>2. call[c].add # <<>> /\ call[c].pc = "add"
    BY <1>6 DEF AddTag, At
  <2>3. Tail(call[c].add) \in Seq(Tag)
    BY <1>3, <2>2, HeadTailProperties
  <2>4. /\ q \in Request /\ q.lesson = call[c].lesson /\ q.order = call[c].order
        /\ q.curriculum = call[c].curriculum /\ q.add = Tail(call[c].add) /\ q.pc = "add"
    BY <1>2, <2>1, <2>2, <2>3 DEF Request
  <2>5. call' = [call EXCEPT ![c] = q]
    BY <1>6, <2>1 DEF AddTag
  <2>6. lesson' = [lesson EXCEPT ![call[c].lesson] =
          [@ EXCEPT !.tags = lesson[call[c].lesson].tags \cup {Head(call[c].add)}]]
    BY <1>6 DEF AddTag
  <2> QED BY <1>3, <1>6, <2>2, <2>4, <2>5, <2>6
<1> QED BY <1>4, <1>5, <1>6

\* A row with other tags.
LEMMA Retagged ==
  ASSUME NEW r \in Row, NEW tags \in SUBSET Tag
  PROVE  /\ [r EXCEPT !.tags = tags] \in Row
         /\ [r EXCEPT !.tags = tags].order = r.order
         /\ [r EXCEPT !.tags = tags].tags = tags
BY DEF Row

\* A statement of a sync leaves its call past the row and the lesson in its place.
LEMMA SyncRetags ==
  ASSUME WorkInv, NEW c \in Call, ReadTags(c) \/ RemoveTags(c) \/ AddTag(c)
  PROVE  \E q \in Request, r \in Row :
           /\ call' = [call EXCEPT ![c] = q]
           /\ q.lesson = call[c].lesson /\ q.order = call[c].order
           /\ q.curriculum = call[c].curriculum /\ q.pc # "row"
           /\ r.order = lesson[call[c].lesson].order
           /\ lesson' = [lesson EXCEPT ![call[c].lesson] = r]
<1>1. call[c] # Absent /\ call[c].pc # "row"
  BY DEF ReadTags, RemoveTags, AddTag, At
<1>2. call[c].lesson \in Lesson /\ lesson[call[c].lesson] \in Row
  BY <1>1, SyncingCall
<1>3. PICK q \in Request :
         /\ call' = [call EXCEPT ![c] = q]
         /\ q.lesson = call[c].lesson /\ q.order = call[c].order
         /\ q.curriculum = call[c].curriculum /\ q.pc # "row"
         /\ \/ lesson' = lesson
            \/ lesson' = [lesson EXCEPT ![call[c].lesson] =
                 [@ EXCEPT !.tags = lesson[call[c].lesson].tags \ call[c].remove]]
            \/ /\ call[c].add \in Seq(Tag) \ {<<>>}
               /\ lesson' = [lesson EXCEPT ![call[c].lesson] =
                    [@ EXCEPT !.tags = lesson[call[c].lesson].tags \cup {Head(call[c].add)}]]
  BY SyncStatements
<1>4. \E r \in Row : /\ r.order = lesson[call[c].lesson].order
                     /\ lesson' = [lesson EXCEPT ![call[c].lesson] = r]
  <2>1. lesson[call[c].lesson].tags \subseteq Tag
    BY <1>2 DEF Row
  <2>2. call[c].add \in Seq(Tag) \ {<<>>} => Head(call[c].add) \in Tag
    BY HeadTailProperties
  <2>3. CASE lesson' = lesson
    BY <1>2, <2>3 DEF WorkInv, TypeInv
  <2>4. CASE lesson' = [lesson EXCEPT ![call[c].lesson] =
               [@ EXCEPT !.tags = lesson[call[c].lesson].tags \ call[c].remove]]
    <3>1. PICK tags \in SUBSET Tag : tags = lesson[call[c].lesson].tags \ call[c].remove
      BY <2>1
    <3> QED BY <1>2, <2>4, <3>1, Retagged
  <2>5. CASE /\ call[c].add \in Seq(Tag) \ {<<>>}
             /\ lesson' = [lesson EXCEPT ![call[c].lesson] =
                    [@ EXCEPT !.tags = lesson[call[c].lesson].tags \cup {Head(call[c].add)}]]
    <3>1. PICK tags \in SUBSET Tag : tags = lesson[call[c].lesson].tags \cup {Head(call[c].add)}
      BY <2>1, <2>2, <2>5
    <3> QED BY <1>2, <2>5, <3>1, Retagged
  <2> QED BY <1>3, <2>3, <2>4, <2>5
<1> QED BY <1>3, <1>4

LEMMA SyncWorks ==
  ASSUME WorkInv, NEW c \in Call, ReadTags(c) \/ RemoveTags(c) \/ AddTag(c)
  PROVE  WorkInv'
<1>1. /\ call[c] # Absent /\ call[c].pc # "row"
      /\ UNCHANGED <<page, sent, editor, seed, told, disturbed, faults>>
  BY DEF ReadTags, RemoveTags, AddTag, At
<1>2. /\ call[c] \in Request /\ call[c].lesson \in Lesson /\ call[c].curriculum # None
      /\ lesson[call[c].lesson] # Absent
  BY <1>1, SyncingCall
<1>3. PICK q \in Request, r \in Row :
         /\ call' = [call EXCEPT ![c] = q]
         /\ q.lesson = call[c].lesson /\ q.order = call[c].order
         /\ q.curriculum = call[c].curriculum
         /\ lesson' = [lesson EXCEPT ![call[c].lesson] = r]
  BY SyncRetags
<1>4. /\ lesson' \in [Lesson -> Row \cup {Absent}]
      /\ IsFiniteSet({k \in Lesson : lesson'[k] # Absent})
      /\ \A k \in Lesson : lesson[k] # Absent => lesson'[k] # Absent
  BY <1>2, <1>3, LessonWritten
<1>5. /\ call' \in [Call -> Request \cup {Absent}]
      /\ CallsFit' /\ CallsApart' /\ EditorsApart' /\ SeedAlone' /\ ToldApart'
  BY <1>1, <1>2, <1>3, <1>4, SyncingWorks
<1>6. TypeInv'
  BY <1>1, <1>4, <1>5 DEF WorkInv, TypeInv
<1> QED BY <1>5, <1>6 DEF WorkInv

LEMMA SyncedWorks ==
  ASSUME WorkInv, NEW c \in Call, TagsSynced(c)
  PROVE  WorkInv'
<1>1. /\ call[c] # Absent /\ call[c].pc # "row"
      /\ told' = [told EXCEPT ![call[c].lesson] = call[c].curriculum]
      /\ answers(c, lesson)
      /\ call' = [call EXCEPT ![c] = Absent] /\ editor' = unlocked(c)
      /\ UNCHANGED <<lesson, seed, disturbed, faults>>
  BY DEF TagsSynced, At, answers
<1>2. /\ call[c].lesson \in Lesson /\ call[c].curriculum \in CurriculumMetadata
      /\ lesson[call[c].lesson] # Absent /\ call[c].curriculum # None
  BY <1>1, SyncingCall
<1>3. /\ call' \in [Call -> Request \cup {Absent}]
      /\ editor' \in [Editor -> Form \cup {Absent}]
      /\ CallsFit' /\ CallsApart' /\ EditorsApart' /\ SeedAlone'
      /\ \A b \in Call :
           call'[b] # Absent => b # c /\ call[b] # Absent /\ call'[b] = call[b]
  BY <1>1, EndedWorks
<1>4. /\ DOMAIN page' \subseteq {l \in Lesson : lesson'[l] # Absent}
      /\ page' \in [DOMAIN page' -> Nat]
  <2>1. answers(c, lesson')
    BY <1>1
  <2> QED BY <1>1, <2>1, PageAnswered DEF WorkInv, TypeInv
<1>5. TypeInv'
  BY <1>1, <1>2, <1>3, <1>4 DEF WorkInv, TypeInv
<1>6. ToldApart'
  <2>1. PICK l \in Lesson : l = call[c].lesson
    BY <1>2
  <2>2. \A b \in Call : ~ Syncs(b, l)'
    <3>1. \A b \in Call : b # c /\ call[b] # Absent /\ call[b].lesson = l
                            => call[b].curriculum = None
      BY <1>1, <1>2, <2>1 DEF WorkInv, CallsApart
    <3> QED BY <1>3, <3>1 DEF Syncs
  <2>3. \A k \in Lesson \ {l} : told'[k] = told[k]
    BY <1>1, <2>1 DEF WorkInv, TypeInv
  <2>4. \A b \in Call : \A k : Syncs(b, k)' => Syncs(b, k)
    BY <1>3 DEF Syncs
  <2> QED BY <1>1, <1>2, <2>1, <2>2, <2>3, <2>4 DEF WorkInv, ToldApart
<1> QED BY <1>3, <1>5, <1>6 DEF WorkInv

LEMMA FailWorks ==
  ASSUME WorkInv, NEW c \in Call, CallFails(c)
  PROVE  WorkInv'
<1>1. /\ call[c] # Absent /\ faults' = faults + 1
      /\ call' = [call EXCEPT ![c] = Absent] /\ editor' = unlocked(c)
      /\ disturbed' \in BOOLEAN
      /\ UNCHANGED <<lesson, page, sent, seed, told>>
  BY DEF CallFails
<1>2. /\ call' \in [Call -> Request \cup {Absent}]
      /\ editor' \in [Editor -> Form \cup {Absent}]
      /\ CallsFit' /\ CallsApart' /\ EditorsApart' /\ SeedAlone'
      /\ \A b \in Call : call'[b] # Absent => call[b] # Absent /\ call'[b] = call[b]
  BY <1>1, EndedWorks
<1>3. TypeInv'
  BY <1>1, <1>2 DEF WorkInv, TypeInv
<1>4. ToldApart'
  BY <1>1, <1>2 DEF WorkInv, ToldApart, Syncs
<1> QED BY <1>2, <1>3, <1>4 DEF WorkInv

\* The seed at work has the lessons to itself.
LEMMA SeedStatements ==
  ASSUME WorkInv, seed # seedRests,
         SeedAddsTag \/ SeedDies \/ \E l \in Seeded : SeedRow(l) \/ SeedPrunes(l)
  PROVE  /\ seed' \in SeedState
         /\ \/ lesson' = lesson
            \/ \E l \in Seeded, r \in Row : lesson' = [lesson EXCEPT ![l] = r]
         /\ told' \in [Lesson -> CurriculumMetadata \cup {None}]
         /\ \A l \in Lesson : told'[l] # None => told[l] # None \/ l \in Seeded
         /\ faults' \in Nat
         /\ UNCHANGED <<call, page, sent, editor, disturbed>>
<1>1. /\ seed \in SeedState
      /\ \A l \in Seeded : l \in Lesson /\ lesson[l] \in Row /\ SeedOrder[l] \in Nat
                            /\ SeedCurriculum[l] \in CurriculumMetadata
      /\ told \in [Lesson -> CurriculumMetadata \cup {None}]
      /\ faults \in Nat
  BY SeedAssumption DEF WorkInv, TypeInv, SeedAlone
<1>2. CASE SeedAddsTag
  <2>1. /\ seed.add \in Seq(Tag) \ {<<>>} /\ seed.at \in Seeded
        /\ Head(seed.add) \in Tag /\ Tail(seed.add) \in Seq(Tag)
    BY <1>1, <1>2, HeadTailProperties DEF SeedAddsTag, SeedState, WorkInv, SeedAlone
  <2>2. PICK add, at : add = Tail(seed.add) /\ at = IF Len(seed.add) = 1 THEN None ELSE seed.at
    OBVIOUS
  <2>3. seed' = [seed EXCEPT !.add = add, !.at = at]
    BY <1>2, <2>2 DEF SeedAddsTag
  <2>4. seed' \in SeedState
    BY <1>1, <2>1, <2>2, <2>3 DEF SeedState
  <2>5. PICK tags \in SUBSET Tag : tags = lesson[seed.at].tags \cup {Head(seed.add)}
    BY <1>1, <2>1 DEF Row
  <2>6. lesson' = [lesson EXCEPT ![seed.at] = [@ EXCEPT !.tags = tags]]
    BY <1>2, <2>5 DEF SeedAddsTag
  <2>7. [lesson[seed.at] EXCEPT !.tags = tags] \in Row
    BY <1>1, <2>1, <2>5, Retagged
  <2>8. PICK m \in CurriculumMetadata \cup {None} : told' = [told EXCEPT ![seed.at] = m]
    <3>1. told[seed.at] \in CurriculumMetadata \cup {None}
      BY <1>1, <2>1
    <3>2. CASE Len(seed.add) = 1
      BY <1>1, <1>2, <2>1, <3>2 DEF SeedAddsTag
    <3>3. CASE Len(seed.add) # 1
      BY <1>2, <3>1, <3>3 DEF SeedAddsTag
    <3> QED BY <3>2, <3>3
  <2>9. /\ told' \in [Lesson -> CurriculumMetadata \cup {None}]
        /\ \A l \in Lesson : told'[l] # None => told[l] # None \/ l \in Seeded
    BY <1>1, <2>1, <2>8
  <2> QED BY <1>1, <1>2, <2>1, <2>4, <2>6, <2>7, <2>9 DEF SeedAddsTag
<1>3. CASE SeedDies
  BY <1>1, <1>3, EmptySeed DEF SeedDies
<1>4. ASSUME NEW l \in Seeded, SeedRow(l)
      PROVE  /\ seed' \in SeedState
             /\ \E r \in Row : lesson' = [lesson EXCEPT ![l] = r]
             /\ UNCHANGED <<call, page, sent, editor, told, disturbed, faults>>
  <2>1. PICK r : r = [lesson[l] EXCEPT !.order = SeedOrder[l]]
    OBVIOUS
  <2>2. r \in Row
    BY <1>1, <2>1 DEF Row
  <2>3. lesson' = [lesson EXCEPT ![l] = r]
    BY <1>4, <2>1 DEF SeedRow
  <2>4. seed' \in SeedState
    BY <1>1, <1>4 DEF SeedRow, SeedState
  <2> QED BY <1>4, <2>2, <2>3, <2>4 DEF SeedRow
<1>5. ASSUME NEW l \in Seeded, SeedPrunes(l)
      PROVE  /\ seed' \in SeedState
             /\ \E r \in Row : lesson' = [lesson EXCEPT ![l] = r]
             /\ UNCHANGED <<call, page, sent, editor, told, disturbed, faults>>
  <2>1. PICK tags \in SUBSET Tag : tags = lesson[l].tags \cap tagsOf(SeedCurriculum[l])
    BY <1>1 DEF Row
  <2>2. lesson' = [lesson EXCEPT ![l] = [@ EXCEPT !.tags = tags]]
    BY <1>5, <2>1 DEF SeedPrunes
  <2>3. [lesson[l] EXCEPT !.tags = tags] \in Row
    BY <1>1, <2>1, Retagged
  <2>4. PICK add : add = createCurriculumTags(SeedCurriculum[l])
    OBVIOUS
  <2>5. add \in Seq(Tag)
    BY <1>1, <2>4, TagsOfMetadata
  <2>6. seed' = [seed EXCEPT !.at = l, !.tags = @ \ {l}, !.add = add]
    BY <1>5, <2>4 DEF SeedPrunes
  <2>7. seed' \in SeedState
    BY <1>1, <2>5, <2>6 DEF SeedState
  <2> QED BY <1>1, <1>5, <2>2, <2>3, <2>7 DEF SeedPrunes
<1> QED BY <1>1, <1>2, <1>3, <1>4, <1>5

\* What the seed is at, after any of its steps.
LEMMA SeedAt ==
  ASSUME WorkInv,
         SeedAddsTag \/ SeedDies \/ \E l \in Seeded : SeedRow(l) \/ SeedPrunes(l)
  PROVE  seed'.at # None <=> seed'.add # <<>>
<1>1. seed \in SeedState /\ (seed.at # None <=> seed.add # <<>>)
  BY DEF WorkInv, TypeInv, SeedAlone
<1>2. CASE SeedAddsTag
  <2>1. /\ seed.add \in Seq(Tag) \ {<<>>} /\ seed.at # None
        /\ Len(seed.add) \in Nat /\ Tail(seed.add) \in Seq(Tag)
        /\ Len(Tail(seed.add)) = Len(seed.add) - 1
    BY <1>1, <1>2, HeadTailProperties, LenProperties DEF SeedAddsTag, SeedState
  <2>2. Tail(seed.add) = <<>> <=> Len(seed.add) = 1
    <3>1. Tail(seed.add) = <<>> <=> Len(Tail(seed.add)) = 0
      BY <2>1, EmptySeq
    <3> QED BY <2>1, <3>1
  <2>3. /\ seed'.add = Tail(seed.add)
        /\ seed'.at = IF Len(seed.add) = 1 THEN None ELSE seed.at
    BY <1>1, <1>2 DEF SeedAddsTag, SeedState
  <2> QED BY <2>1, <2>2, <2>3
<1>3. CASE SeedDies
  BY <1>3, EmptySeed DEF SeedDies
<1>4. ASSUME NEW l \in Seeded, SeedRow(l)
      PROVE  seed'.at # None <=> seed'.add # <<>>
  BY <1>1, <1>4 DEF SeedRow, SeedState
<1>5. ASSUME NEW l \in Seeded, SeedPrunes(l)
      PROVE  seed'.at # None <=> seed'.add # <<>>
  <2>1. SeedCurriculum[l] \in CurriculumMetadata
    BY SeedAssumption
  <2>2. createCurriculumTags(SeedCurriculum[l]) # <<>>
    BY <2>1, TagsOfMetadata
  <2>3. seed'.at = l /\ seed'.add = createCurriculumTags(SeedCurriculum[l])
    BY <1>1, <1>5 DEF SeedPrunes, SeedState
  <2> QED BY <2>2, <2>3, Values
<1> QED BY <1>2, <1>3, <1>4, <1>5

LEMMA SeedWorks ==
  ASSUME WorkInv, Seed
  PROVE  WorkInv'
<1>1. CASE SeedStarts
  <2>1. /\ \A c \in Call : call[c] = Absent
        /\ \A e \in Editor : editor[e] = Absent
        /\ seed' = seedStarted
        /\ told' = [l \in Lesson |-> IF l \in Seeded THEN None ELSE told[l]]
        /\ disturbed' \in BOOLEAN
        /\ UNCHANGED <<lesson, call, page, editor, faults>>
    <3>1. \A c \in Call : call[c] = Absent
      BY <1>1 DEF SeedStarts, pending, idle
    <3> QED BY <1>1, <3>1 DEF SeedStarts
  <2>2. TypeInv'
    BY <2>1, EmptySeed DEF WorkInv, TypeInv
  <2>3. CallsFit' /\ CallsApart' /\ EditorsApart'
    BY <2>1 DEF CallsFit, CallsApart, EditorsApart
  <2>4. SeedAlone'
    BY <2>1, EmptySeed DEF WorkInv, SeedAlone
  <2>5. ToldApart'
    BY <2>1 DEF WorkInv, ToldApart, Syncs
  <2> QED BY <2>2, <2>3, <2>4, <2>5 DEF WorkInv
<1>2. CASE ~ SeedStarts
  <2>1. SeedAddsTag \/ SeedDies \/ \E l \in Seeded : SeedRow(l) \/ SeedPrunes(l)
    BY <1>2 DEF Seed
  <2>2. seed # seedRests
    BY <2>1, EmptySeed DEF SeedAddsTag, SeedDies, SeedRow, SeedPrunes
  <2>3. /\ seed' \in SeedState
        /\ \/ lesson' = lesson
           \/ \E l \in Seeded, r \in Row : lesson' = [lesson EXCEPT ![l] = r]
        /\ told' \in [Lesson -> CurriculumMetadata \cup {None}]
        /\ \A l \in Lesson : told'[l] # None => told[l] # None \/ l \in Seeded
        /\ faults' \in Nat
        /\ UNCHANGED <<call, page, sent, editor, disturbed>>
    BY <2>1, <2>2, SeedStatements
  <2>4. /\ \A c \in Call : call[c] = Absent
        /\ \A e \in Editor : editor[e] = Absent
        /\ \A l \in Seeded : l \in Lesson /\ lesson[l] # Absent
    BY <2>2, SeedAssumption DEF WorkInv, SeedAlone
  <2>5. /\ lesson' \in [Lesson -> Row \cup {Absent}]
        /\ IsFiniteSet({k \in Lesson : lesson'[k] # Absent})
        /\ \A k \in Lesson : lesson[k] # Absent => lesson'[k] # Absent
    <3>1. CASE lesson' = lesson
      BY <3>1 DEF WorkInv, TypeInv
    <3>2. CASE \E l \in Seeded, r \in Row : lesson' = [lesson EXCEPT ![l] = r]
      BY <2>4, <3>2, LessonWritten
    <3> QED BY <2>3, <3>1, <3>2
  <2>6. TypeInv'
    BY <2>3, <2>5 DEF WorkInv, TypeInv
  <2>7. CallsFit' /\ CallsApart' /\ EditorsApart'
    BY <2>3, <2>4 DEF CallsFit, CallsApart, EditorsApart
  <2>8. SeedAlone'
    BY <2>1, <2>3, <2>4, <2>5, SeedAt DEF SeedAlone
  <2>9. ToldApart'
    BY <2>3, <2>4, <2>5 DEF WorkInv, ToldApart, Syncs
  <2> QED BY <2>6, <2>7, <2>8, <2>9 DEF WorkInv
<1> QED BY <1>1, <1>2

LEMMA WorkKept == WorkInv /\ [Next]_vars => WorkInv'
<1> SUFFICES ASSUME WorkInv, [Next]_vars PROVE WorkInv'
  OBVIOUS
<1>1. CASE UNCHANGED vars
  <2>1. UNCHANGED <<lesson, call, page, sent, editor, seed, told, faults, disturbed>>
    BY <1>1 DEF vars
  <2>2. TypeInv'
    BY <2>1 DEF WorkInv, TypeInv
  <2> QED BY <2>1, <2>2, WorkUnchanged DEF WorkInv
<1>2. CASE Staff
  BY <1>2, SaveWorks, MoveWorks, CreateWorks DEF Staff
<1>3. CASE Seed
  BY <1>3, SeedWorks
<1>4. CASE LoadCourse
  BY <1>4, LoadWorks
<1>5. ASSUME NEW e \in Editor, NEW l \in Edited, OpenEditor(e, l)
      PROVE  WorkInv'
  BY <1>5, OpenWorks
<1>6. ASSUME NEW e \in Editor, EditForm(e) \/ CloseEditor(e)
      PROVE  WorkInv'
  BY <1>6, EditWorks, CloseWorks
<1>7. ASSUME NEW c \in Call, Serve(c)
      PROVE  WorkInv'
  BY <1>7, WriteWorks, SyncWorks, SyncedWorks, FailWorks DEF Serve
<1> QED BY <1>1, <1>2, <1>3, <1>4, <1>5, <1>6, <1>7 DEF Next

LEMMA WorkInvariant == Spec => []WorkInv
<1> QED BY WorkStarts, WorkKept, PTL DEF Spec

\* Whatever the selects, the tags of the lesson or of its neighbours were, the metadata of an
\* editor's form and of a new lesson is valid (the lesson editor's selects,
\* createDefaultCurriculum, parseCurriculumTags).
THEOREM FormsAccepted == Spec => []FormAlwaysAccepted
<1>1. WorkInv => FormAlwaysAccepted
  <2> SUFFICES ASSUME WorkInv PROVE FormAlwaysAccepted
    OBVIOUS
  <2>1. \A e \in Editor : editor[e] # Absent => editor[e].form \in CurriculumMetadata
    BY DEF WorkInv, TypeInv, Form
  <2> QED BY <2>1, NewLessonValid, ValidMetadata DEF FormAlwaysAccepted
<1> QED BY <1>1, WorkInvariant, PTL

-----------------------------------------------------------------------------
(* The tags of a lesson, statement by statement                              *)

\* Part of the tags of m are written and the rest is still to be added.
Between(tags, add, m) ==
  /\ tags \subseteq tagsOf(m)
  /\ ToSet(add) \subseteq tagsOf(m)
  /\ tagsOf(m) \subseteq tags \cup ToSet(add)

TagsSingle == \A l \in Lesson : lesson[l] # Absent => Single(lesson[l].tags)

\* A sync first takes away what is not desired, then adds what is.
SyncFits ==
  \A c \in Call : call[c] # Absent =>
    /\ call[c].pc = "remove" =>
         /\ call[c].add = createCurriculumTags(call[c].curriculum)
         /\ call[c].remove = lesson[call[c].lesson].tags \ tagsOf(call[c].curriculum)
    /\ call[c].pc = "add" =>
         Between(lesson[call[c].lesson].tags, call[c].add, call[c].curriculum)

SeedFits ==
  seed.at # None => Between(lesson[seed.at].tags, seed.add, SeedCurriculum[seed.at])

\* What a writer was told is what the tags say, and what the seed is about to write again.
ToldHolds ==
  /\ \A l \in Lesson : told[l] # None => lesson[l].tags = tagsOf(told[l])
  /\ seed # seedRests => \A l \in Seeded : told[l] \in {None, SeedCurriculum[l]}

TagInv == TagsSingle /\ SyncFits /\ SeedFits /\ ToldHolds

LEMMA PartSingle ==
  ASSUME NEW m \in CurriculumMetadata, NEW tags, tags \subseteq tagsOf(m)
  PROVE  Single(tags)
BY MetadataTagsSingle DEF Single

\* The next tag is added.
LEMMA OneAdded ==
  ASSUME NEW m \in CurriculumMetadata, NEW tags, NEW add \in Seq(Tag) \ {<<>>},
         Between(tags, add, m)
  PROVE  Between(tags \cup {Head(add)}, Tail(add), m)
<1>1. ToSet(add) = {Head(add)} \cup ToSet(Tail(add))
  <2>1. /\ Head(add) = add[1] /\ Len(add) \in Nat \ {0} /\ DOMAIN add = 1 .. Len(add)
        /\ Len(Tail(add)) = Len(add) - 1 /\ Tail(add) \in Seq(Tag)
        /\ \A i \in 1 .. Len(Tail(add)) : Tail(add)[i] = add[i + 1]
    BY HeadTailProperties, LenProperties, EmptySeq
  <2>2. DOMAIN Tail(add) = 1 .. Len(add) - 1
    BY <2>1, LenProperties
  <2>3. ASSUME NEW t \in ToSet(add)
        PROVE  t \in {Head(add)} \cup ToSet(Tail(add))
    <3>1. PICK i \in 1 .. Len(add) : t = add[i]
      BY <2>1, <2>3 DEF ToSet
    <3>2. CASE i = 1
      BY <2>1, <3>1, <3>2
    <3>3. CASE i # 1
      <4>1. i - 1 \in 1 .. Len(add) - 1 /\ Tail(add)[i - 1] = t
        BY <2>1, <3>1, <3>3
      <4> QED BY <2>2, <4>1 DEF ToSet
    <3> QED BY <3>2, <3>3
  <2>4. ASSUME NEW t \in ToSet(Tail(add))
        PROVE  t \in ToSet(add)
    <3>1. PICK i \in 1 .. Len(add) - 1 : t = Tail(add)[i]
      BY <2>2, <2>4 DEF ToSet
    <3>2. i + 1 \in 1 .. Len(add) /\ t = add[i + 1]
      BY <2>1, <3>1
    <3> QED BY <2>1, <3>2 DEF ToSet
  <2>5. Head(add) \in ToSet(add)
    BY <2>1 DEF ToSet
  <2> QED BY <2>3, <2>4, <2>5
<1> QED BY <1>1 DEF Between

LEMMA AllAdded ==
  ASSUME NEW m \in CurriculumMetadata, NEW tags, Between(tags, <<>>, m)
  PROVE  tags = tagsOf(m)
<1>1. ToSet(<<>>) = {}
  BY DEF ToSet
<1> QED BY <1>1 DEF Between

\* Steps that leave the tags of every lesson and every sync where they are.
LEMMA TagsQuiet ==
  ASSUME WorkInv, TagInv,
         \A l \in Lesson : lesson'[l] # Absent =>
           \/ lesson[l] # Absent /\ lesson'[l].tags = lesson[l].tags
           \/ lesson[l] = Absent /\ lesson'[l].tags = {},
         \A c \in Call : call'[c] # Absent /\ call'[c].pc \in {"remove", "add"} =>
           call[c] # Absent /\ call'[c] = call[c],
         \A l \in Lesson : lesson[l] # Absent => lesson'[l] # Absent,
         seed'.at # None => seed'.at = seed.at /\ seed'.add = seed.add,
         \A l \in Lesson : told'[l] # None => told'[l] = told[l],
         seed' # seedRests => \A l \in Seeded : told'[l] \in {None, SeedCurriculum[l]}
  PROVE  TagInv'
<1>1. \A l \in Lesson : lesson[l] # Absent => lesson'[l] # Absent /\ lesson'[l].tags = lesson[l].tags
  OBVIOUS
<1>2. TagsSingle'
  BY DEF TagInv, TagsSingle, Single
<1>3. SyncFits'
  <2>1. \A c \in Call : call[c] # Absent /\ call[c].pc # "row" =>
          lesson'[call[c].lesson].tags = lesson[call[c].lesson].tags
    BY <1>1, SyncingCall
  <2> QED BY <2>1 DEF TagInv, SyncFits
<1>4. SeedFits'
  <2>1. seed.at # None => lesson'[seed.at].tags = lesson[seed.at].tags
    BY <1>1, SeedAssumption DEF WorkInv, TypeInv, SeedAlone, SeedState
  <2> QED BY <2>1 DEF TagInv, SeedFits
<1>5. ToldHolds'
  BY <1>1 DEF TagInv, ToldHolds, WorkInv, ToldApart
<1> QED BY <1>2, <1>3, <1>4, <1>5 DEF TagInv

LEMMA TagsStart == Init => TagInv
<1> SUFFICES ASSUME Init PROVE TagInv
  OBVIOUS
<1>1. WorkInv
  BY WorkStarts
<1>2. \A l \in Lesson : lesson[l] # Absent =>
        l \in Seeded /\ lesson[l].tags = tagsOf(SeedCurriculum[l])
  BY DEF Init, row
<1>3. \A l \in Seeded : SeedCurriculum[l] \in CurriculumMetadata
  BY SeedAssumption
<1>4. TagsSingle
  BY <1>2, <1>3, MetadataTagsSingle DEF TagsSingle
<1>5. SyncFits /\ SeedFits /\ ToldHolds
  BY EmptySeed DEF Init, SyncFits, SeedFits, ToldHolds
<1> QED BY <1>4, <1>5 DEF TagInv

LEMMA ManagedAreAll ==
  ASSUME NEW tags \in SUBSET Tag
  PROVE  managedExisting(tags) = tags
BY DEF managedExisting, Tag

LEMMA SyncTags ==
  ASSUME WorkInv, TagInv, NEW c \in Call, ReadTags(c) \/ RemoveTags(c) \/ AddTag(c)
  PROVE  TagInv'
<1>1. /\ call[c] # Absent /\ call[c].pc # "row"
      /\ UNCHANGED <<seed, told>>
  BY DEF ReadTags, RemoveTags, AddTag, At
<1>2. PICK l \in Lesson, m \in CurriculumMetadata :
         /\ l = call[c].lesson /\ m = call[c].curriculum
         /\ call[c] \in Request
         /\ lesson[l] \in Row /\ lesson[l] # Absent /\ m # None
         /\ Syncs(c, l) /\ seed = seedRests
  BY <1>1, SyncingCall
<1>3. PICK q \in Request :
         /\ call' = [call EXCEPT ![c] = q]
         /\ q.lesson = l /\ q.order = call[c].order /\ q.curriculum = m
         /\ \/ /\ ReadTags(c)
               /\ q.add = createCurriculumTags(m)
               /\ q.remove = managedExisting(lesson[l].tags) \ tagsOf(m)
               /\ q.pc = IF q.remove = {} THEN "add" ELSE "remove"
               /\ lesson' = lesson
            \/ /\ RemoveTags(c)
               /\ q.pc = "add" /\ q.add = call[c].add
               /\ lesson' = [lesson EXCEPT ![l] =
                    [@ EXCEPT !.tags = lesson[l].tags \ call[c].remove]]
            \/ /\ AddTag(c)
               /\ call[c].add \in Seq(Tag) \ {<<>>}
               /\ q.pc = "add" /\ q.add = Tail(call[c].add)
               /\ lesson' = [lesson EXCEPT ![l] =
                    [@ EXCEPT !.tags = lesson[l].tags \cup {Head(call[c].add)}]]
  BY <1>2, SyncStatements
<1>4. lesson[l].tags \in SUBSET Tag
  BY <1>2 DEF Row
<1>5. /\ ToSet(createCurriculumTags(m)) = tagsOf(m)
      /\ createCurriculumTags(m) \in Seq(Tag)
      /\ Single(lesson[l].tags)
  BY <1>2, TagsOfMetadata DEF tagsOf, TagInv, TagsSingle
<1>6. \E tags \in SUBSET Tag :
        /\ lesson' = [lesson EXCEPT ![l] = [@ EXCEPT !.tags = tags]]
        /\ Single(tags)
        /\ q.pc = "remove" => q.add = createCurriculumTags(m) /\ q.remove = tags \ tagsOf(m)
        /\ q.pc = "add" => Between(tags, q.add, m)
  <2>1. CASE ReadTags(c)
    <3>1. /\ call[c].pc = "tags"
          /\ q.add = createCurriculumTags(m)
          /\ q.remove = lesson[l].tags \ tagsOf(m)
          /\ q.pc = IF q.remove = {} THEN "add" ELSE "remove"
          /\ lesson' = lesson
      BY <1>3, <1>4, <2>1, ManagedAreAll DEF ReadTags, RemoveTags, AddTag, At
    <3>2. lesson' = [lesson EXCEPT ![l] = [@ EXCEPT !.tags = lesson[l].tags]]
      BY <1>2, <3>1 DEF Row, WorkInv, TypeInv
    <3>3. q.pc = "add" => Between(lesson[l].tags, q.add, m)
      BY <1>5, <3>1 DEF Between
    <3> QED BY <1>4, <1>5, <3>1, <3>2, <3>3
  <2>2. CASE RemoveTags(c)
    <3>1. /\ call[c].pc = "remove"
          /\ q.pc = "add" /\ q.add = call[c].add
          /\ lesson' = [lesson EXCEPT ![l] = [@ EXCEPT !.tags = lesson[l].tags \ call[c].remove]]
      BY <1>3, <2>2 DEF ReadTags, RemoveTags, AddTag, At
    <3>2. /\ call[c].add = createCurriculumTags(m)
          /\ call[c].remove = lesson[l].tags \ tagsOf(m)
      BY <1>1, <1>2, <3>1 DEF TagInv, SyncFits
    <3>3. PICK tags \in SUBSET Tag : tags = lesson[l].tags \ call[c].remove
      BY <1>4
    <3>4. tags \subseteq tagsOf(m) /\ tags \subseteq lesson[l].tags
      BY <3>2, <3>3
    <3>5. Single(tags)
      BY <3>4, PartSingle
    <3>6. Between(tags, q.add, m)
      BY <1>5, <3>1, <3>2, <3>4 DEF Between
    <3> QED BY <3>1, <3>3, <3>5, <3>6
  <2>3. CASE AddTag(c)
    <3>1. /\ call[c].pc = "add" /\ call[c].add \in Seq(Tag) \ {<<>>}
          /\ q.pc = "add" /\ q.add = Tail(call[c].add)
          /\ lesson' = [lesson EXCEPT ![l] =
                [@ EXCEPT !.tags = lesson[l].tags \cup {Head(call[c].add)}]]
      BY <1>3, <2>3 DEF ReadTags, RemoveTags, AddTag, At
    <3>2. Between(lesson[l].tags, call[c].add, m)
      BY <1>1, <1>2, <3>1 DEF TagInv, SyncFits
    <3>3. PICK tags : tags = lesson[l].tags \cup {Head(call[c].add)}
      OBVIOUS
    <3>4. Between(tags, q.add, m)
      BY <3>1, <3>2, <3>3, OneAdded
    <3>5. tags \subseteq tagsOf(m) /\ tags \in SUBSET Tag
      BY <3>4, TagsOfMetadata DEF Between
    <3>6. Single(tags)
      BY <3>5, PartSingle
    <3> QED BY <3>1, <3>3, <3>4, <3>5, <3>6
  <2> QED BY <2>1, <2>2, <2>3
<1>7. PICK tags \in SUBSET Tag :
        /\ lesson' = [lesson EXCEPT ![l] = [@ EXCEPT !.tags = tags]]
        /\ Single(tags)
        /\ q.pc = "remove" => q.add = createCurriculumTags(m) /\ q.remove = tags \ tagsOf(m)
        /\ q.pc = "add" => Between(tags, q.add, m)
  BY <1>6
<1>8. /\ lesson'[l].tags = tags
      /\ \A k \in Lesson \ {l} : lesson'[k] = lesson[k]
  BY <1>2, <1>7, Retagged DEF WorkInv, TypeInv
<1>9. call'[c] = q /\ \A b \in Call \ {c} : call'[b] = call[b]
  BY <1>3 DEF WorkInv, TypeInv
<1>10. TagsSingle'
  BY <1>7, <1>8 DEF TagInv, TagsSingle
<1>11. SyncFits'
  <2>1. \A b \in Call \ {c} : call[b] # Absent /\ call[b].pc # "row" =>
          call[b].lesson \in Lesson \ {l}
    BY <1>1, <1>2, SyncingCall DEF WorkInv, CallsApart
  <2> QED BY <1>3, <1>7, <1>8, <1>9, <2>1 DEF TagInv, SyncFits
<1>12. SeedFits'
  BY <1>1, <1>2, EmptySeed DEF SeedFits
<1>13. ToldHolds'
  <2>1. told[l] = None
    BY <1>2 DEF WorkInv, ToldApart
  <2> QED BY <1>1, <1>2, <1>8, <2>1 DEF TagInv, ToldHolds
<1> QED BY <1>10, <1>11, <1>12, <1>13 DEF TagInv

LEMMA SyncedTags ==
  ASSUME WorkInv, TagInv, NEW c \in Call, TagsSynced(c)
  PROVE  TagInv'
<1>1. /\ call[c] # Absent /\ call[c].pc = "add" /\ call[c].add = <<>>
      /\ told' = [told EXCEPT ![call[c].lesson] = call[c].curriculum]
      /\ call' = [call EXCEPT ![c] = Absent]
      /\ UNCHANGED <<lesson, seed>>
  BY DEF TagsSynced, At, answers
<1>2. PICK l \in Lesson, m \in CurriculumMetadata :
         l = call[c].lesson /\ m = call[c].curriculum /\ seed = seedRests
  BY <1>1, SyncingCall
<1>3. lesson[l].tags = tagsOf(m)
  BY <1>1, <1>2, AllAdded DEF TagInv, SyncFits
<1>4. \A b \in Call : call'[b] # Absent => call'[b] = call[b]
  BY <1>1 DEF WorkInv, TypeInv
<1>5. told'[l] = m /\ \A k \in Lesson \ {l} : told'[k] = told[k]
  BY <1>1, <1>2 DEF WorkInv, TypeInv
<1>6. TagsSingle' /\ SeedFits'
  BY <1>1 DEF TagInv, TagsSingle, SeedFits
<1>7. SyncFits'
  BY <1>1, <1>4 DEF TagInv, SyncFits
<1>8. ToldHolds'
  BY <1>1, <1>2, <1>3, <1>5 DEF TagInv, ToldHolds
<1> QED BY <1>6, <1>7, <1>8 DEF TagInv

\* The seed at its tags.
LEMMA SeedTags ==
  ASSUME WorkInv, TagInv, SeedAddsTag \/ \E l \in Seeded : SeedPrunes(l)
  PROVE  TagInv'
<1>1. seed # seedRests /\ seed \in SeedState
  BY EmptySeed DEF SeedAddsTag, SeedPrunes, WorkInv, TypeInv
<1>2. \A c \in Call : call[c] = Absent
  BY <1>1 DEF WorkInv, SeedAlone
<1>3. call' = call
  BY DEF SeedAddsTag, SeedPrunes
<1>4. \E l \in Seeded, m \in CurriculumMetadata, tags \in SUBSET Tag :
        /\ m = SeedCurriculum[l]
        /\ lesson' = [lesson EXCEPT ![l] = [@ EXCEPT !.tags = tags]]
        /\ tags \subseteq tagsOf(m)
        /\ lesson[l].tags = tagsOf(m) => tags = tagsOf(m)
        /\ seed'.at # None => seed'.at = l /\ Between(tags, seed'.add, m)
        /\ \/ told' = told
           \/ told' = [told EXCEPT ![l] = m] /\ tags = tagsOf(m)
  <2>1. CASE SeedAddsTag
    <3>1. PICK l \in Seeded : l = seed.at
      BY <1>1, <2>1 DEF SeedAddsTag, WorkInv, SeedAlone, SeedState
    <3>2. PICK m \in CurriculumMetadata : m = SeedCurriculum[l]
      BY SeedAssumption
    <3>3. /\ seed.add \in Seq(Tag) \ {<<>>}
          /\ Between(lesson[l].tags, seed.add, m)
      BY <1>1, <2>1, <3>1, <3>2, Values DEF SeedAddsTag, SeedState, TagInv, SeedFits
    <3>4. PICK tags : tags = lesson[l].tags \cup {Head(seed.add)}
      OBVIOUS
    <3>5. Between(tags, Tail(seed.add), m)
      BY <3>3, <3>4, OneAdded
    <3>6. tags \subseteq tagsOf(m) /\ tags \in SUBSET Tag
      BY <3>5, TagsOfMetadata DEF Between
    <3>7. lesson' = [lesson EXCEPT ![l] = [@ EXCEPT !.tags = tags]]
      BY <2>1, <3>1, <3>4 DEF SeedAddsTag
    <3>8. /\ seed'.add = Tail(seed.add)
          /\ seed'.at = IF Len(seed.add) = 1 THEN None ELSE l
      BY <1>1, <2>1, <3>1 DEF SeedAddsTag, SeedState
    <3>9. lesson[l].tags = tagsOf(m) => tags = tagsOf(m)
      BY <3>4, <3>6
    <3>10. CASE Len(seed.add) = 1
      <4>1. Tail(seed.add) = <<>>
        <5>1. Tail(seed.add) \in Seq(Tag) /\ Len(Tail(seed.add)) = 0
          BY <3>3, <3>10, HeadTailProperties
        <5> QED BY <5>1, EmptySeq
      <4>2. tags = tagsOf(m)
        BY <3>5, <4>1, AllAdded
      <4>3. told' = [told EXCEPT ![l] = m]
        BY <2>1, <3>1, <3>2, <3>10 DEF SeedAddsTag
      <4> QED BY <3>2, <3>6, <3>7, <3>8, <3>10, <4>2, <4>3
    <3>11. CASE Len(seed.add) # 1
      <4>1. told' = [told EXCEPT ![l] = told[l]]
        BY <2>1, <3>1, <3>11 DEF SeedAddsTag
      <4>2. told' = told
        BY <4>1 DEF WorkInv, TypeInv
      <4> QED BY <3>2, <3>5, <3>6, <3>7, <3>8, <3>9, <3>11, <4>2
    <3> QED BY <3>10, <3>11
  <2>2. CASE \E l \in Seeded : SeedPrunes(l)
    <3>1. PICK l \in Seeded : SeedPrunes(l)
      BY <2>2
    <3>2. PICK m \in CurriculumMetadata : m = SeedCurriculum[l]
      BY SeedAssumption
    <3>3. PICK tags : tags = lesson[l].tags \cap tagsOf(m)
      OBVIOUS
    <3>4. tags \subseteq tagsOf(m) /\ tags \in SUBSET Tag
      BY <3>3, TagsOfMetadata
    <3>5. /\ seed'.at = l /\ seed'.add = createCurriculumTags(m)
          /\ told' = told
          /\ lesson' = [lesson EXCEPT ![l] = [@ EXCEPT !.tags = tags]]
      BY <1>1, <3>1, <3>2, <3>3 DEF SeedPrunes, SeedState
    <3>6. Between(tags, seed'.add, m)
      BY <3>4, <3>5 DEF Between, tagsOf
    <3>7. lesson[l].tags = tagsOf(m) => tags = tagsOf(m)
      BY <3>3
    <3> QED BY <3>2, <3>4, <3>5, <3>6, <3>7
  <2> QED BY <2>1, <2>2
<1>5. PICK l \in Seeded, m \in CurriculumMetadata, tags \in SUBSET Tag :
        /\ m = SeedCurriculum[l]
        /\ lesson' = [lesson EXCEPT ![l] = [@ EXCEPT !.tags = tags]]
        /\ tags \subseteq tagsOf(m)
        /\ lesson[l].tags = tagsOf(m) => tags = tagsOf(m)
        /\ seed'.at # None => seed'.at = l /\ Between(tags, seed'.add, m)
        /\ \/ told' = told
           \/ told' = [told EXCEPT ![l] = m] /\ tags = tagsOf(m)
  BY <1>4
<1>6. l \in Lesson /\ lesson[l] \in Row /\ lesson[l] # Absent
  BY SeedAssumption DEF WorkInv, TypeInv, SeedAlone
<1>7. /\ lesson'[l].tags = tags
      /\ \A k \in Lesson \ {l} : lesson'[k] = lesson[k]
  BY <1>5, <1>6, Retagged DEF WorkInv, TypeInv
<1>8. TagsSingle'
  <2>1. Single(tags)
    BY <1>5, PartSingle
  <2> QED BY <1>7, <2>1 DEF TagInv, TagsSingle
<1>9. SyncFits'
  BY <1>2, <1>3 DEF SyncFits
<1>10. SeedFits'
  BY <1>5, <1>7 DEF SeedFits
<1>11. \A k \in Lesson \ {l} : told'[k] = told[k]
  BY <1>5 DEF WorkInv, TypeInv
<1>12. /\ told[l] \in {None, m}
       /\ told'[l] = told[l] \/ (told'[l] = m /\ tags = tagsOf(m))
  BY <1>1, <1>5, <1>6 DEF TagInv, ToldHolds, WorkInv, TypeInv
<1>13. told'[l] # None => tags = tagsOf(m) /\ told'[l] = m
  <2>1. told[l] # None => lesson[l].tags = tagsOf(told[l])
    BY <1>6 DEF TagInv, ToldHolds
  <2> QED BY <1>5, <1>12, <2>1
<1>14. ToldHolds'
  <2>1. \A k \in Lesson : told'[k] # None => lesson'[k].tags = tagsOf(told'[k])
    BY <1>7, <1>11, <1>13 DEF TagInv, ToldHolds
  <2>2. \A k \in Seeded : told'[k] \in {None, SeedCurriculum[k]}
    BY <1>1, <1>5, <1>11, <1>13, SeedAssumption DEF TagInv, ToldHolds
  <2> QED BY <2>1, <2>2 DEF ToldHolds
<1> QED BY <1>8, <1>9, <1>10, <1>14 DEF TagInv

LEMMA TagsKept == WorkInv /\ TagInv /\ [Next]_vars => TagInv'
<1> SUFFICES ASSUME WorkInv, TagInv, [Next]_vars PROVE TagInv'
  OBVIOUS
<1> DEFINE SameTags == \A l \in Lesson : lesson'[l] # Absent =>
                         \/ lesson[l] # Absent /\ lesson'[l].tags = lesson[l].tags
                         \/ lesson[l] = Absent /\ lesson'[l].tags = {}
           SameSyncs == \A c \in Call : call'[c] # Absent /\ call'[c].pc \in {"remove", "add"} =>
                          call[c] # Absent /\ call'[c] = call[c]
           Kept == \A l \in Lesson : lesson[l] # Absent => lesson'[l] # Absent
           SameSeed == seed'.at # None => seed'.at = seed.at /\ seed'.add = seed.add
           SameTold == /\ \A l \in Lesson : told'[l] # None => told'[l] = told[l]
                       /\ seed' # seedRests => \A l \in Seeded : told'[l] \in {None, SeedCurriculum[l]}
<1>1. SameTags /\ SameSyncs /\ Kept /\ SameSeed /\ SameTold => TagInv'
  BY TagsQuiet
<1>2. lesson' = lesson => SameTags /\ Kept
  OBVIOUS
<1>3. seed' = seed /\ told' = told => SameSeed /\ SameTold
  BY DEF TagInv, ToldHolds
<1>5. CASE UNCHANGED vars
  BY <1>1, <1>2, <1>3, <1>5 DEF vars
<1>6. ASSUME seed = seedRests, NEW e \in Editor, onSave(e)
      PROVE  TagInv'
  <2>1. PICK c \in idle : save(e, c)
    BY <1>6 DEF onSave
  <2>2. PICK l, q :
          l = editor[e].lesson /\ q = request(editor[e].lesson, None, editor[e].form)
    OBVIOUS
  <2>3. /\ l \in Lesson /\ q.pc = "row" /\ c \in Call
        /\ call' = [call EXCEPT ![c] = q]
        /\ told' = [told EXCEPT ![l] = None]
        /\ UNCHANGED <<lesson, seed>>
    BY <1>6, <2>2, <2>1 DEF save, request, onSave, idle, WorkInv, TypeInv, Form
  <2>4. SameSyncs
    BY <2>3 DEF WorkInv, TypeInv
  <2>5. SameSeed /\ SameTold
    BY <1>6, <2>3 DEF WorkInv, TypeInv
  <2> QED BY <1>1, <1>2, <2>3, <2>4, <2>5
<1>7. ASSUME MoveLesson
      PROVE  TagInv'
  <2>1. PICK l \in DOMAIN page : \E k \in neighbours(l) : moveLesson(l, k)
    BY <1>7 DEF MoveLesson
  <2>2. PICK k : moveLesson(l, k)
    BY <2>1
  <2>3. PICK q, r : q = request(l, page[k], None) /\ r = request(k, page[l], None)
    OBVIOUS
  <2>4. PICK c \in Call, d \in Call :
          /\ q = request(l, page[k], None) /\ r = request(k, page[l], None)
          /\ call' = [call EXCEPT ![c] = q, ![d] = r]
          /\ UNCHANGED <<lesson, seed, told>>
    BY <2>2, <2>3 DEF moveLesson, idle
  <2>5. q.pc = "row" /\ r.pc = "row"
    BY <2>4 DEF request
  <2>6. SameSyncs
    BY <2>4, <2>5 DEF WorkInv, TypeInv
  <2> QED BY <1>1, <1>2, <1>3, <2>4, <2>6
<1>8. ASSUME NEW l \in Lesson, createLesson(l)
      PROVE  TagInv'
  <2>1. PICK c \in idle, m \in getDefaultCurriculum :
          call' = [call EXCEPT ![c] = request(l, Cardinality(DOMAIN page) + 1, m)]
    BY <1>8 DEF createLesson
  <2>2. PICK q : q = request(l, Cardinality(DOMAIN page) + 1, m)
    OBVIOUS
  <2>3. /\ c \in Call /\ q.pc = "row"
        /\ call' = [call EXCEPT ![c] = q]
        /\ UNCHANGED <<lesson, seed, told>>
    BY <1>8, <2>1, <2>2 DEF createLesson, request, idle
  <2>4. SameSyncs
    BY <2>3 DEF WorkInv, TypeInv
  <2> QED BY <1>1, <1>2, <1>3, <2>3, <2>4
<1>9. CASE Staff
  BY <1>6, <1>7, <1>8, <1>9 DEF Staff
<1>10. CASE SeedStarts
  <2>1. /\ UNCHANGED <<lesson, call>> /\ seed' = seedStarted
        /\ told' = [l \in Lesson |-> IF l \in Seeded THEN None ELSE told[l]]
    BY <1>10 DEF SeedStarts
  <2>2. SameTold
    BY <2>1, SeedAssumption
  <2>3. SameSeed
    BY <2>1, EmptySeed
  <2> QED BY <1>1, <1>2, <2>1, <2>2, <2>3
<1>11. CASE SeedDies
  <2>1. UNCHANGED <<lesson, call, told>> /\ seed' = seedStarted /\ seed # seedRests
    BY <1>11 DEF SeedDies
  <2>2. SameSeed /\ SameTold
    BY <2>1, EmptySeed DEF TagInv, ToldHolds
  <2> QED BY <1>1, <1>2, <2>1, <2>2
<1>12. ASSUME NEW l \in Seeded, SeedRow(l)
       PROVE  TagInv'
  <2>1. /\ seed \in SeedState /\ l \in Lesson /\ lesson[l] \in Row /\ lesson[l] # Absent
        /\ seed # seedRests /\ UNCHANGED <<call, told>>
    BY <1>12, SeedAssumption, EmptySeed DEF SeedRow, WorkInv, TypeInv, SeedAlone
  <2>2. PICK r : r = [lesson[l] EXCEPT !.order = SeedOrder[l]]
    OBVIOUS
  <2>3. r \in Row /\ r.tags = lesson[l].tags /\ lesson' = [lesson EXCEPT ![l] = r]
    BY <1>12, <2>1, <2>2, SeedAssumption DEF SeedRow, Row
  <2>4. SameTags /\ Kept
    BY <2>1, <2>3, Values DEF WorkInv, TypeInv
  <2>5. SameSeed
    BY <1>12, <2>1 DEF SeedRow, SeedState
  <2>6. SameTold
    BY <2>1 DEF TagInv, ToldHolds
  <2> QED BY <1>1, <2>1, <2>4, <2>5, <2>6
<1>13. CASE Seed
  BY <1>10, <1>11, <1>12, <1>13, SeedTags DEF Seed
<1>14. CASE LoadCourse
  BY <1>1, <1>2, <1>3, <1>14 DEF LoadCourse
<1>15. ASSUME NEW e \in Editor, NEW l \in Edited, OpenEditor(e, l)
       PROVE  TagInv'
  BY <1>1, <1>2, <1>3, <1>15 DEF OpenEditor
<1>16. ASSUME NEW e \in Editor, EditForm(e) \/ CloseEditor(e)
       PROVE  TagInv'
  BY <1>1, <1>2, <1>3, <1>16 DEF EditForm, CloseEditor
<1>17. ASSUME NEW c \in Call, WriteRow(c)
       PROVE  TagInv'
  <2>1. /\ call[c] # Absent /\ lesson' = [lesson EXCEPT ![call[c].lesson] = written(c)]
        /\ \/ call' = [call EXCEPT ![c] = Absent]
           \/ call' = [call EXCEPT ![c].pc = "tags"]
        /\ UNCHANGED <<seed, told>>
    BY <1>17 DEF WriteRow, At, answers
  <2>2. SameTags /\ Kept
    BY <2>1, WrittenRow, Values DEF WorkInv, TypeInv
  <2>3. SameSyncs
    <3>1. [call[c] EXCEPT !.pc = "tags"].pc = "tags"
      BY <2>1 DEF WorkInv, TypeInv, Request
    <3> QED BY <2>1, <3>1 DEF WorkInv, TypeInv
  <2> QED BY <1>1, <1>3, <2>1, <2>2, <2>3
<1>18. ASSUME NEW c \in Call, CallFails(c)
       PROVE  TagInv'
  <2>1. call' = [call EXCEPT ![c] = Absent] /\ UNCHANGED <<lesson, seed, told>>
    BY <1>18 DEF CallFails
  <2>2. SameSyncs
    BY <2>1 DEF WorkInv, TypeInv
  <2> QED BY <1>1, <1>2, <1>3, <2>1, <2>2
<1>19. ASSUME NEW c \in Call, Serve(c)
       PROVE  TagInv'
  BY <1>17, <1>18, <1>19, SyncTags, SyncedTags DEF Serve
<1> QED BY <1>5, <1>9, <1>13, <1>14, <1>15, <1>16, <1>19 DEF Next

LEMMA TagInvariant == Spec => [](WorkInv /\ TagInv)
<1>1. Init => WorkInv /\ TagInv
  BY WorkStarts, TagsStart
<1>2. (WorkInv /\ TagInv) /\ [Next]_vars => (WorkInv /\ TagInv)'
  BY WorkKept, TagsKept
<1> QED BY <1>1, <1>2, PTL DEF Spec

\* Whatever died between two statements of a sync or of the seed, and however staff move and
\* create lessons meanwhile, the tags of a lesson are read in one way
\* (syncLessonCurriculumTags, seedPrograms, parseCurriculumTags).
THEOREM TagsAgree == Spec => []TagsNeverContradict
<1>1. TagInv => TagsNeverContradict
  BY SingleReadsOneWay DEF TagInv, TagsSingle, TagsNeverContradict
<1> QED BY <1>1, TagInvariant, PTL

\* The curriculum a writer was told is saved is read back until somebody saves it again
\* (updateLesson, createLesson, seedPrograms).
THEOREM SavedIsReadBack == Spec => []SavedCurriculumReadsBack
<1>1. WorkInv /\ TagInv => SavedCurriculumReadsBack
  BY MetadataReadsBack DEF WorkInv, TypeInv, TagInv, ToldHolds, SavedCurriculumReadsBack
<1> QED BY <1>1, TagInvariant, PTL

-----------------------------------------------------------------------------
(* The order of the lessons, while staff are careful                         *)

\* Orders that are exactly the places from 1 on.
Perm(f) ==
  /\ IsFiniteSet(DOMAIN f)
  /\ \A l \in DOMAIN f : f[l] \in 1 .. Cardinality(DOMAIN f)
  /\ \A l, k \in DOMAIN f : l # k => f[l] # f[k]

\* What one click on the page p sends: a move of two lessons, or a new lesson.
Swap(p, l, k) == {request(l, p[k], None), request(k, p[l], None)}
Creation(p, l, m) == {request(l, Cardinality(DOMAIN p) + 1, m)}

Clicked(p, s) ==
  \/ \E l, k \in DOMAIN p : l # k /\ s = Swap(p, l, k)
  \/ \E l \in Lesson \ DOMAIN p, m \in CurriculumMetadata : s = Creation(p, l, m)

\* The order of l is the one the page shows, and what was sent for it is still to be written;
\* or it is the one that was sent.
Placed(l, rows, calls, p, s) ==
  \/ /\ l \in DOMAIN p
     /\ rows[l].order = p[l]
     /\ \A r \in s : r.lesson = l => \E c \in Call : calls[c] = r
  \/ \E r \in s : r.lesson = l /\ rows[l].order = r.order

\* The rows, after the click on p that sent s.
Arriving(rows, calls, p, s) ==
  /\ Perm(p)
  /\ Clicked(p, s)
  /\ \A l \in Lesson : rows[l] # Absent => Placed(l, rows, calls, p, s)

PendingSent ==
  \A c \in Call : call[c] # Absent /\ ordering(call[c]) => call[c] \in sent

\* Between a click and the answers; the page may be outdated when nothing is sent.
SentPlaced ==
  seed = seedRests =>
    IF sent = {} THEN Perm(ordersOf(lesson))
    ELSE Arriving(lesson, call, page, sent)

\* While the seed runs there are no lessons but its own.
SeedPlaced ==
  seed # seedRests =>
    /\ sent = {}
    /\ \A l \in Lesson : lesson[l] # Absent => l \in Seeded
    /\ \A l \in Seeded \ seed.rows : lesson[l].order = SeedOrder[l]

OrderInv == PendingSent /\ SentPlaced /\ SeedPlaced

\* The orders that were sent, once all have arrived, are places again.
LEMMA AllArrived ==
  ASSUME NEW f, NEW p, NEW s, Perm(p), Clicked(p, s),
         DOMAIN p \subseteq DOMAIN f, DOMAIN p \subseteq Lesson,
         \A l \in DOMAIN f :
           \/ l \in DOMAIN p /\ f[l] = p[l] /\ \A r \in s : r.lesson # l
           \/ \E r \in s : r.lesson = l /\ f[l] = r.order
  PROVE  Perm(f)
<1> DEFINE n == Cardinality(DOMAIN p)
<1>1. n \in Nat /\ IsFiniteSet(DOMAIN p)
  BY FS_CardinalityType DEF Perm
<1>2. ASSUME NEW l \in DOMAIN p, NEW k \in DOMAIN p, l # k, s = Swap(p, l, k)
      PROVE  Perm(f)
  <2>1. /\ request(l, p[k], None) \in s /\ request(k, p[l], None) \in s
        /\ \A r \in s : \/ r.lesson = l /\ r.order = p[k]
                        \/ r.lesson = k /\ r.order = p[l]
        /\ request(l, p[k], None).lesson = l /\ request(k, p[l], None).lesson = k
    BY <1>2 DEF Swap, request
  <2>2. DOMAIN f = DOMAIN p
    BY <2>1
  <2>3. f[l] = p[k] /\ f[k] = p[l]
    BY <1>2, <2>1
  <2>4. \A x \in DOMAIN f \ {l, k} : f[x] = p[x]
    BY <2>1
  <2>5. \A x \in DOMAIN f : f[x] \in 1 .. n
    BY <1>2, <2>2, <2>3, <2>4 DEF Perm
  <2>6. \A x, y \in DOMAIN f : x # y => f[x] # f[y]
    BY <1>2, <2>2, <2>3, <2>4 DEF Perm
  <2> QED BY <1>1, <2>2, <2>5, <2>6 DEF Perm
<1>3. ASSUME NEW l \in Lesson \ DOMAIN p, NEW m \in CurriculumMetadata, s = Creation(p, l, m)
      PROVE  Perm(f)
  <2>1. \A r : r \in s <=> r = request(l, n + 1, m)
    BY <1>3 DEF Creation
  <2>2. request(l, n + 1, m).lesson = l /\ request(l, n + 1, m).order = n + 1
    BY DEF request
  <2> HIDE DEF n
  <2>3. \A x \in DOMAIN f : \/ x \in DOMAIN p /\ f[x] = p[x]
                            \/ x = l /\ f[x] = n + 1
    BY <2>1, <2>2
  <2>4. \A x \in DOMAIN p : x \in DOMAIN f /\ f[x] = p[x] /\ p[x] \in 1 .. n
    BY <1>3, <2>3 DEF Perm, n
  <2>5. CASE l \in DOMAIN f
    <3>1. DOMAIN f = DOMAIN p \cup {l} /\ f[l] = n + 1
      BY <1>3, <2>3, <2>5
    <3>2. IsFiniteSet(DOMAIN f) /\ Cardinality(DOMAIN f) = n + 1
      BY <1>1, <1>3, <3>1, FS_AddElement DEF n
    <3>3. \A x \in DOMAIN f : f[x] \in 1 .. n + 1
      BY <1>1, <2>4, <3>1
    <3>4. \A x, y \in DOMAIN f : x # y => f[x] # f[y]
      <4> SUFFICES ASSUME NEW x \in DOMAIN f, NEW y \in DOMAIN f, x # y
                   PROVE  f[x] # f[y]
        OBVIOUS
      <4>1. CASE x \in DOMAIN p /\ y \in DOMAIN p
        BY <2>4, <4>1 DEF Perm
      <4>2. CASE x = l /\ y \in DOMAIN p
        BY <1>1, <2>4, <3>1, <4>2
      <4>3. CASE y = l /\ x \in DOMAIN p
        BY <1>1, <2>4, <3>1, <4>3
      <4> QED BY <3>1, <4>1, <4>2, <4>3
    <3> QED BY <3>2, <3>3, <3>4 DEF Perm
  <2>6. CASE l \notin DOMAIN f
    <3>1. DOMAIN f = DOMAIN p
      BY <2>3, <2>4, <2>6
    <3> QED BY <2>4, <3>1 DEF Perm
  <2> QED BY <2>5, <2>6
<1> QED BY <1>2, <1>3 DEF Clicked

\* The seed's orders are places.
LEMMA SeededOrders ==
  ASSUME NEW f, DOMAIN f = Seeded, \A l \in Seeded : f[l] = SeedOrder[l]
  PROVE  Perm(f)
BY SeedAssumption DEF Perm

\* What a click sends is an order for a lesson, yet to be written.
LEMMA ClickSends ==
  ASSUME NEW p, NEW s, Perm(p), Clicked(p, s), DOMAIN p \subseteq Lesson
  PROVE  /\ s # {}
         /\ \A r \in s : r # Absent /\ ordering(r)
<1>1. /\ Cardinality(DOMAIN p) \in Nat /\ IsFiniteSet(DOMAIN p)
      /\ \A l \in DOMAIN p : p[l] \in Nat
  BY FS_CardinalityType DEF Perm
<1>2. ASSUME NEW l \in DOMAIN p, NEW k \in DOMAIN p, s = Swap(p, l, k)
      PROVE  s # {} /\ \A r \in s : r # Absent /\ ordering(r)
  <2>1. /\ request(l, p[k], None) # Absent /\ request(k, p[l], None) # Absent
        /\ request(l, p[k], None).order = p[k] /\ request(k, p[l], None).order = p[l]
        /\ request(l, p[k], None).pc = "row" /\ request(k, p[l], None).pc = "row"
    BY <1>1, RequestType
  <2> QED BY <1>1, <1>2, <2>1, Values DEF Swap, ordering
<1>3. ASSUME NEW l \in Lesson, NEW m \in CurriculumMetadata, s = Creation(p, l, m)
      PROVE  s # {} /\ \A r \in s : r # Absent /\ ordering(r)
  <2>1. PICK n \in Nat : n = Cardinality(DOMAIN p) + 1
    BY <1>1
  <2>2. /\ request(l, n, m) # Absent /\ request(l, n, m).order = n
        /\ request(l, n, m).pc = "row"
    BY RequestType
  <2> QED BY <1>3, <2>1, <2>2, Values DEF Creation, ordering
<1> QED BY <1>2, <1>3 DEF Clicked

\* Whatever was sent, once no order is on its way the rows are in order.
LEMMA Arrived ==
  ASSUME NEW rows \in [Lesson -> Row \cup {Absent}], NEW calls, NEW p, NEW s,
         DOMAIN p \subseteq {l \in Lesson : rows[l] # Absent},
         Arriving(rows, calls, p, s),
         \A c \in Call : calls[c] # Absent => ~ ordering(calls[c])
  PROVE  Perm(ordersOf(rows))
<1> DEFINE f == ordersOf(rows)
<1>1. /\ DOMAIN f = {l \in Lesson : rows[l] # Absent}
      /\ \A l \in Lesson : rows[l] # Absent => f[l] = rows[l].order
      /\ DOMAIN p \subseteq DOMAIN f /\ DOMAIN p \subseteq Lesson
  BY OrdersType
<1> HIDE DEF f
<1>2. \A r \in s : r # Absent /\ ordering(r)
  BY <1>1, ClickSends DEF Arriving
<1>3. \A l \in DOMAIN f :
        \/ l \in DOMAIN p /\ f[l] = p[l] /\ \A r \in s : r.lesson # l
        \/ \E r \in s : r.lesson = l /\ f[l] = r.order
  BY <1>1, <1>2 DEF Arriving, Placed
<1>4. Perm(f)
  BY <1>1, <1>3, AllArrived DEF Arriving
<1> QED BY <1>4 DEF f

LEMMA Settled ==
  ASSUME WorkInv, OrderInv, seed = seedRests,
         \A c \in Call : call[c] # Absent => ~ ordering(call[c])
  PROVE  Perm(ordersOf(lesson))
<1>1. CASE sent = {}
  BY <1>1 DEF OrderInv, SentPlaced
<1>2. CASE sent # {}
  <2>1. Arriving(lesson, call, page, sent)
    BY <1>2 DEF OrderInv, SentPlaced
  <2> QED BY <2>1, Arrived DEF WorkInv, TypeInv
<1> QED BY <1>1, <1>2

LEMMA OrderStarts == Init => OrderInv
<1> SUFFICES ASSUME Init PROVE OrderInv
  OBVIOUS
<1>1. lesson \in [Lesson -> Row \cup {Absent}]
  BY WorkStarts DEF WorkInv, TypeInv
<1>2. \A l \in Lesson : /\ lesson[l] # Absent <=> l \in Seeded
                        /\ l \in Seeded => lesson[l].order = SeedOrder[l]
  BY WorkStarts DEF Init, row, WorkInv, SeedAlone
<1>3. DOMAIN ordersOf(lesson) = Seeded /\ \A l \in Seeded : ordersOf(lesson)[l] = SeedOrder[l]
  BY <1>1, <1>2, OrdersType, SeedAssumption
<1>4. Perm(ordersOf(lesson))
  BY <1>3, SeededOrders
<1> QED BY <1>4 DEF Init, OrderInv, PendingSent, SentPlaced, SeedPlaced

\* Steps that neither send nor write an order.
LEMMA OrderQuiet ==
  ASSUME WorkInv, OrderInv, lesson' \in [Lesson -> Row \cup {Absent}],
         \A l \in Lesson : lesson'[l] = Absent <=> lesson[l] = Absent,
         \A l \in Lesson : lesson[l] # Absent => lesson'[l].order = lesson[l].order,
         \A c \in Call : call'[c] # Absent /\ ordering(call'[c]) => call'[c] = call[c],
         \A c \in Call : call[c] # Absent /\ ordering(call[c]) => call'[c] = call[c],
         UNCHANGED <<page, sent, seed>>
  PROVE  OrderInv'
<1>1. PendingSent'
  BY DEF OrderInv, PendingSent
<1>2. ordersOf(lesson') = ordersOf(lesson)
  <2>1. {l \in Lesson : lesson'[l] # Absent} = {l \in Lesson : lesson[l] # Absent}
    OBVIOUS
  <2> QED BY <2>1 DEF ordersOf
<1>3. SentPlaced'
  <2>1. CASE sent = {}
    BY <1>2, <2>1 DEF OrderInv, SentPlaced
  <2>2. CASE sent # {} /\ seed = seedRests
    <3>1. Arriving(lesson, call, page, sent) /\ DOMAIN page \subseteq Lesson
      BY <2>2 DEF OrderInv, SentPlaced, WorkInv, TypeInv
    <3>2. \A r \in sent : r # Absent /\ ordering(r)
      BY <3>1, ClickSends DEF Arriving
    <3>3. \A r \in sent : (\E c \in Call : call[c] = r) => \E c \in Call : call'[c] = r
      BY <3>2
    <3>4. ASSUME NEW l \in Lesson, lesson'[l] # Absent
          PROVE  Placed(l, lesson', call', page, sent)
      <4>1. Placed(l, lesson, call, page, sent) /\ lesson'[l].order = lesson[l].order
        BY <3>1, <3>4 DEF Arriving
      <4> QED BY <3>3, <4>1 DEF Placed
    <3>5. Arriving(lesson', call', page, sent)
      BY <3>1, <3>4 DEF Arriving
    <3> QED BY <2>2, <3>5 DEF SentPlaced
  <2> QED BY <2>1, <2>2 DEF SentPlaced
<1>4. SeedPlaced'
  <2>1. \A l \in Seeded : l \in Lesson /\ lesson'[l].order = lesson[l].order
    BY SeedAssumption DEF WorkInv, SeedAlone
  <2> QED BY <2>1 DEF OrderInv, SeedPlaced
<1> QED BY <1>1, <1>3, <1>4 DEF OrderInv

\* A click whose requests are not outdated.
LEMMA SendOrders ==
  ASSUME WorkInv, OrderInv, seed = seedRests, NEW s,
         Clicked(page, s), ~ outdated(s), sent' = s,
         \A c \in Call : call[c] # Absent => call'[c] = call[c],
         \A c \in Call : call'[c] # Absent => call'[c] = call[c] \/ call'[c] \in s,
         \A r \in s : \E c \in Call : call'[c] = r,
         UNCHANGED <<lesson, page, seed>>
  PROVE  OrderInv'
<1>2. CASE s = sent
  <2>1. PendingSent'
    BY <1>2 DEF OrderInv, PendingSent
  <2>2. sent # {}
    BY <1>2 DEF Clicked, Swap, Creation
  <2>3. \A r \in sent : (\E c \in Call : call[c] = r) => \E c \in Call : call'[c] = r
    BY <1>2
  <2>4. SentPlaced'
    <3>1. Arriving(lesson, call, page, sent)
      BY <2>2 DEF OrderInv, SentPlaced
    <3>2. Arriving(lesson, call', page, sent)
      BY <2>3, <3>1 DEF Arriving, Placed
    <3> QED BY <1>2, <2>2, <3>2 DEF SentPlaced
  <2>5. SeedPlaced'
    BY DEF SeedPlaced
  <2> QED BY <2>1, <2>4, <2>5 DEF OrderInv
<1>3. CASE s # sent
  <2>1. page = ordersOf(lesson) /\ \A r \in pending : ~ ordering(r)
    BY <1>3 DEF outdated
  <2>2. \A c \in Call : call[c] # Absent => ~ ordering(call[c])
    BY <2>1 DEF pending, idle
  <2>3. Perm(page)
    BY <2>1, <2>2, Settled
  <2>4. PendingSent'
    BY <2>2 DEF PendingSent
  <2>5. /\ DOMAIN page = {l \in Lesson : lesson[l] # Absent}
        /\ \A l \in Lesson : lesson[l] # Absent => page[l] = lesson[l].order
    BY <2>1, OrdersType DEF WorkInv, TypeInv
  <2>6. SentPlaced'
    <3>1. \A l \in Lesson : lesson[l] # Absent => Placed(l, lesson, call', page, s)
      BY <2>5 DEF Placed
    <3>2. s # {}
      BY DEF Clicked, Swap, Creation
    <3>3. Arriving(lesson, call', page, s)
      BY <2>3, <3>1 DEF Arriving
    <3> QED BY <3>2, <3>3 DEF SentPlaced
  <2>7. SeedPlaced'
    BY DEF SeedPlaced
  <2> QED BY <2>4, <2>6, <2>7 DEF OrderInv
<1> QED BY <1>2, <1>3

LEMMA MoveOrders ==
  ASSUME WorkInv, OrderInv, seed = seedRests, MoveLesson, ~ disturbed'
  PROVE  OrderInv'
<1>1. PICK l \in DOMAIN page : \E k \in neighbours(l) : moveLesson(l, k)
  BY DEF MoveLesson
<1>2. PICK k \in neighbours(l) : moveLesson(l, k)
  BY <1>1
<1>3. PICK s : s = Swap(page, l, k)
  OBVIOUS
<1>4. /\ sent' = s
      /\ disturbed' = (disturbed \/ outdated(s))
      /\ UNCHANGED <<lesson, page, seed>>
  BY <1>2, <1>3 DEF moveLesson, Swap
<1>5. ~ outdated(s)
  BY <1>4
<1>6. PICK c \in Call, d \in Call :
         /\ c # d /\ call[c] = Absent /\ call[d] = Absent
         /\ call' = [call EXCEPT ![c] = request(l, page[k], None), ![d] = request(k, page[l], None)]
  BY <1>2 DEF moveLesson, idle
<1>7. l # k /\ k \in DOMAIN page
  BY DEF neighbours
<1>8. Clicked(page, s)
  BY <1>3, <1>7 DEF Clicked
<1>9. /\ call'[c] = request(l, page[k], None) /\ call'[d] = request(k, page[l], None)
      /\ \A b \in Call \ {c, d} : call'[b] = call[b]
  BY <1>6 DEF WorkInv, TypeInv
<1>10. /\ \A b \in Call : call[b] # Absent => call'[b] = call[b]
       /\ \A b \in Call : call'[b] # Absent => call'[b] = call[b] \/ call'[b] \in s
       /\ \A r \in s : \E b \in Call : call'[b] = r
  <2>1. \A r : r \in s <=> r = request(l, page[k], None) \/ r = request(k, page[l], None)
    BY <1>3 DEF Swap
  <2> QED BY <1>6, <1>9, <2>1
<1> QED BY <1>4, <1>5, <1>8, <1>10, SendOrders

LEMMA CreateOrders ==
  ASSUME WorkInv, OrderInv, seed = seedRests, NEW l \in Lesson, createLesson(l), ~ disturbed'
  PROVE  OrderInv'
<1>1. PICK c \in idle, m \in getDefaultCurriculum :
         /\ call' = [call EXCEPT ![c] = request(l, Cardinality(DOMAIN page) + 1, m)]
         /\ disturbed' = (disturbed \/ outdated({request(l, Cardinality(DOMAIN page) + 1, m)}))
         /\ sent' = {request(l, Cardinality(DOMAIN page) + 1, m)}
  BY DEF createLesson
<1>2. PICK s : s = Creation(page, l, m)
  OBVIOUS
<1>3. /\ sent' = s /\ ~ outdated(s)
      /\ UNCHANGED <<lesson, page, seed>>
  BY <1>1, <1>2 DEF createLesson, Creation
<1>4. l \notin DOMAIN page
  BY DEF createLesson, WorkInv, TypeInv
<1>5. Clicked(page, s)
  BY <1>2, <1>4, NewLessonValid DEF Clicked
<1>6. /\ \A b \in Call : call[b] # Absent => call'[b] = call[b]
      /\ \A b \in Call : call'[b] # Absent => call'[b] = call[b] \/ call'[b] \in s
      /\ \A r \in s : \E b \in Call : call'[b] = r
  BY <1>1, <1>2 DEF idle, Creation, WorkInv, TypeInv
<1> QED BY <1>3, <1>5, <1>6, SendOrders

\* The page loads when nothing is on its way.
LEMMA LoadOrders ==
  ASSUME WorkInv, OrderInv, LoadCourse
  PROVE  OrderInv'
<1>1. /\ \A c \in Call : call[c] = Absent
      /\ seed = seedRests /\ sent' = {}
      /\ UNCHANGED <<lesson, call, seed>>
  BY DEF LoadCourse, pending, idle
<1>2. Perm(ordersOf(lesson))
  BY <1>1, Settled
<1> QED BY <1>1, <1>2 DEF OrderInv, PendingSent, SentPlaced, SeedPlaced

\* What is left on its way, when the call c has written what it carried or was lost with a
\* lesson that is not there.
LEMMA StillArriving ==
  ASSUME WorkInv, Arriving(lesson, call, page, sent), NEW c \in Call, call[c] # Absent,
         \/ lesson[call[c].lesson] = Absent /\ lesson' = lesson
         \/ /\ call[c] \in sent
            /\ lesson' \in [Lesson -> Row \cup {Absent}]
            /\ lesson'[call[c].lesson].order = call[c].order
            /\ \A k \in Lesson \ {call[c].lesson} : lesson'[k] = lesson[k],
         \A d \in Call \ {c} : call'[d] = call[d]
  PROVE  Arriving(lesson', call', page, sent)
<1> SUFFICES ASSUME NEW k \in Lesson, lesson'[k] # Absent
             PROVE  Placed(k, lesson', call', page, sent)
  BY DEF Arriving
<1>1. CASE k = call[c].lesson
  BY <1>1 DEF Placed
<1>2. CASE k # call[c].lesson
  <2>1. Placed(k, lesson, call, page, sent) /\ lesson'[k] = lesson[k]
    BY <1>2 DEF Arriving
  <2>2. \A d \in Call : call[d].lesson = k => call'[d] = call[d]
    BY <1>2
  <2> QED BY <2>1, <2>2 DEF Placed
<1> QED BY <1>1, <1>2

\* A call writes its order, or has none to write.
LEMMA WriteOrders ==
  ASSUME WorkInv, OrderInv, NEW c \in Call, WriteRow(c)
  PROVE  OrderInv'
<1>1. /\ call[c] # Absent /\ call[c].pc = "row" /\ call[c] \in Request
      /\ lesson' = [lesson EXCEPT ![call[c].lesson] = written(c)]
      /\ call[c].lesson \in Lesson
      /\ seed = seedRests /\ seed' = seed
  BY WrittenRow DEF WriteRow, At, WorkInv, TypeInv, SeedAlone
<1>2. PICK q : q = [call[c] EXCEPT !.pc = "tags"]
  OBVIOUS
<1>3. q.pc = "tags"
  BY <1>1, <1>2 DEF Request
<1>4. CASE call[c].order = None
  <2>1. call[c].curriculum # None
    BY <1>1, <1>4 DEF WorkInv, CallsFit
  <2>2. call' = [call EXCEPT ![c] = q] /\ UNCHANGED <<page, sent>>
    BY <1>2, <2>1 DEF WriteRow
  <2>3. lesson' = lesson
    BY <1>1, <1>4, WrittenRow DEF WorkInv, TypeInv
  <2>4. ~ ordering(call[c]) /\ ~ ordering(q)
    BY <1>3, <1>4 DEF ordering
  <2>5. \A d \in Call : call'[d] = IF d = c THEN q ELSE call[d]
    BY <2>2 DEF WorkInv, TypeInv
  <2> QED BY <1>1, <2>2, <2>3, <2>4, <2>5, OrderQuiet DEF WorkInv, TypeInv
<1>5. CASE call[c].order # None
  <2>1. ordering(call[c]) /\ call[c] \in sent
    BY <1>1, <1>5 DEF ordering, OrderInv, PendingSent
  <2>2. Arriving(lesson, call, page, sent)
    BY <1>1, <2>1 DEF OrderInv, SentPlaced
  <2>3. /\ lesson' \in [Lesson -> Row \cup {Absent}]
        /\ lesson'[call[c].lesson].order = call[c].order
        /\ \A k \in Lesson : lesson[k] # Absent => lesson'[k] # Absent
        /\ \A k \in Lesson \ {call[c].lesson} : lesson'[k] = lesson[k]
    BY <1>1, <1>5, WrittenRow, LessonWritten
  <2>4. /\ \A d \in Call \ {c} : call'[d] = call[d]
        /\ call'[c] # Absent => ~ ordering(call'[c])
    <3>1. call' = [call EXCEPT ![c] = Absent] \/ call' = [call EXCEPT ![c] = q]
      BY <1>2 DEF WriteRow, answers
    <3>2. ~ ordering(q)
      BY <1>3 DEF ordering
    <3> QED BY <3>1, <3>2 DEF WorkInv, TypeInv
  <2>5. Arriving(lesson', call', page, sent)
    BY <1>1, <2>1, <2>2, <2>3, <2>4, StillArriving
  <2>6. SeedPlaced'
    BY <1>1 DEF SeedPlaced
  <2>7. CASE UNCHANGED <<page, sent>>
    <3>1. PendingSent'
      BY <2>4, <2>7 DEF OrderInv, PendingSent
    <3>2. SentPlaced'
      BY <2>1, <2>5, <2>7 DEF SentPlaced
    <3> QED BY <2>6, <3>1, <3>2 DEF OrderInv
  <2>8. CASE ~ UNCHANGED <<page, sent>>
    <3>1. answers(c, lesson')
      BY <2>8 DEF WriteRow
    <3>2. /\ sent' = {}
          /\ \A d \in Call \ (idle \cup {c}) : call[d].order = None
      BY <2>8, <3>1 DEF answers
    <3>3. \A d \in Call : call'[d] # Absent => ~ ordering(call'[d])
      BY <2>4, <3>2 DEF idle, ordering
    <3>4. DOMAIN page \subseteq {l \in Lesson : lesson'[l] # Absent}
      BY <2>3 DEF WorkInv, TypeInv
    <3>5. Perm(ordersOf(lesson'))
      BY <2>3, <2>5, <3>3, <3>4, Arrived
    <3>6. PendingSent' /\ SentPlaced'
      BY <3>2, <3>3, <3>5 DEF PendingSent, SentPlaced
    <3> QED BY <2>6, <3>6 DEF OrderInv
  <2> QED BY <2>7, <2>8
<1> QED BY <1>4, <1>5

\* The statements of a sync come after the order of their call.
LEMMA SyncOrders ==
  ASSUME WorkInv, OrderInv, NEW c \in Call, ReadTags(c) \/ RemoveTags(c) \/ AddTag(c)
  PROVE  OrderInv'
<1>1. /\ call[c] # Absent /\ call[c].pc # "row"
      /\ UNCHANGED <<page, sent, seed>>
  BY DEF ReadTags, RemoveTags, AddTag, At
<1>2. call[c].lesson \in Lesson /\ lesson[call[c].lesson] # Absent
  BY <1>1, SyncingCall
<1>3. PICK q \in Request, r \in Row :
         /\ call' = [call EXCEPT ![c] = q] /\ q.pc # "row"
         /\ r.order = lesson[call[c].lesson].order
         /\ lesson' = [lesson EXCEPT ![call[c].lesson] = r]
  BY SyncRetags
<1>4. /\ lesson' \in [Lesson -> Row \cup {Absent}]
      /\ lesson'[call[c].lesson] = r /\ r # Absent
      /\ \A k \in Lesson \ {call[c].lesson} : lesson'[k] = lesson[k]
  BY <1>2, <1>3, LessonWritten
<1>5. /\ \A l \in Lesson : lesson'[l] = Absent <=> lesson[l] = Absent
      /\ \A l \in Lesson : lesson[l] # Absent => lesson'[l].order = lesson[l].order
  BY <1>2, <1>3, <1>4
<1>6. ~ ordering(call[c]) /\ ~ ordering(q)
  BY <1>1, <1>3 DEF ordering
<1>7. \A d \in Call : call'[d] = IF d = c THEN q ELSE call[d]
  BY <1>3 DEF WorkInv, TypeInv
<1> QED BY <1>1, <1>4, <1>5, <1>6, <1>7, OrderQuiet

\* The last answer of the page's requests reloads it; other answers change no order.
LEMMA SyncedOrders ==
  ASSUME WorkInv, OrderInv, NEW c \in Call, TagsSynced(c)
  PROVE  OrderInv'
<1>1. /\ call[c] # Absent /\ call[c].pc # "row"
      /\ answers(c, lesson)
      /\ UNCHANGED <<lesson, seed>>
  BY DEF TagsSynced, At
<1>2. seed = seedRests /\ ~ ordering(call[c])
  BY <1>1, SyncingCall DEF ordering
<1>3. \A d \in Call : call'[d] = IF d = c THEN Absent ELSE call[d]
  BY <1>1 DEF answers, WorkInv, TypeInv
<1>4. CASE UNCHANGED <<page, sent>>
  BY <1>1, <1>2, <1>3, <1>4, OrderQuiet DEF WorkInv, TypeInv
<1>5. CASE ~ UNCHANGED <<page, sent>>
  <2>1. sent' = {} /\ \A d \in Call \ (idle \cup {c}) : call[d].order = None
    BY <1>1, <1>5 DEF answers
  <2>2. \A d \in Call : call[d] # Absent => ~ ordering(call[d])
    BY <1>2, <2>1 DEF idle, ordering
  <2>3. Perm(ordersOf(lesson))
    BY <1>2, <2>2, Settled
  <2>4. PendingSent'
    BY <1>3, <2>2 DEF PendingSent
  <2> QED BY <1>1, <1>2, <2>1, <2>3, <2>4 DEF OrderInv, SentPlaced, SeedPlaced
<1> QED BY <1>4, <1>5

\* A call that dies with an order takes the lesson it was to create with it.
LEMMA FailOrders ==
  ASSUME WorkInv, OrderInv, NEW c \in Call, CallFails(c), ~ disturbed'
  PROVE  OrderInv'
<1>1. /\ call[c] # Absent
      /\ ~ (ordering(call[c]) /\ lesson[call[c].lesson] # Absent)
      /\ UNCHANGED <<lesson, page, sent, seed>>
  BY DEF CallFails
<1>2. \A d \in Call : call'[d] = IF d = c THEN Absent ELSE call[d]
  BY DEF CallFails, WorkInv, TypeInv
<1>3. CASE ~ ordering(call[c])
  BY <1>1, <1>2, <1>3, OrderQuiet DEF WorkInv, TypeInv
<1>4. CASE ordering(call[c])
  <2>1. seed = seedRests /\ call[c] \in sent /\ lesson[call[c].lesson] = Absent
    BY <1>1, <1>4 DEF WorkInv, SeedAlone, OrderInv, PendingSent
  <2>2. Arriving(lesson, call, page, sent)
    BY <2>1 DEF OrderInv, SentPlaced
  <2>3. Arriving(lesson', call', page, sent)
    BY <1>1, <1>2, <2>1, <2>2, StillArriving
  <2>4. PendingSent'
    BY <1>1, <1>2 DEF OrderInv, PendingSent
  <2>5. SentPlaced' /\ SeedPlaced'
    BY <1>1, <2>1, <2>3 DEF SentPlaced, SeedPlaced
  <2> QED BY <2>4, <2>5 DEF OrderInv
<1> QED BY <1>3, <1>4

\* The seed puts its lessons in their places, and there are no others.
LEMMA SeededInOrder ==
  ASSUME WorkInv', OrderInv, \A c \in Call : call'[c] = Absent,
         sent' = {},
         \A l \in Lesson : lesson'[l] # Absent => l \in Seeded,
         \A l \in Seeded \ seed'.rows : lesson'[l].order = SeedOrder[l]
  PROVE  OrderInv'
<1>1. PendingSent' /\ SeedPlaced'
  BY DEF PendingSent, SeedPlaced
<1>2. CASE seed' = seedRests
  <2>1. /\ DOMAIN ordersOf(lesson') = {l \in Lesson : lesson'[l] # Absent}
        /\ \A l \in Lesson : lesson'[l] # Absent => ordersOf(lesson')[l] = lesson'[l].order
    BY OrdersType DEF WorkInv, TypeInv
  <2>2. \A l \in Seeded : l \in Lesson /\ lesson'[l] # Absent /\ lesson'[l].order = SeedOrder[l]
    BY <1>2, EmptySeed, SeedAssumption DEF WorkInv, SeedAlone
  <2>3. DOMAIN ordersOf(lesson') = Seeded
    BY <2>1, <2>2
  <2>4. \A l \in Seeded : ordersOf(lesson')[l] = SeedOrder[l]
    BY <2>1, <2>2
  <2>5. Perm(ordersOf(lesson'))
    BY <2>3, <2>4, SeededOrders
  <2> QED BY <1>1, <2>5 DEF OrderInv, SentPlaced
<1>3. CASE seed' # seedRests
  BY <1>1, <1>3 DEF OrderInv, SentPlaced
<1> QED BY <1>2, <1>3

LEMMA SeedStartOrders ==
  ASSUME WorkInv, WorkInv', OrderInv, SeedStarts, ~ disturbed'
  PROVE  OrderInv'
<1>1. /\ \A c \in Call : call[c] = Absent
      /\ \A l \in Lesson : lesson[l] # Absent => l \in Seeded
      /\ seed' = seedStarted /\ seed = seedRests
      /\ sent' = {}
      /\ UNCHANGED <<lesson, call>>
  BY DEF SeedStarts, pending, idle
<1>2. Perm(ordersOf(lesson))
  BY <1>1, Settled
<1>3. Seeded \ seed'.rows = {}
  BY <1>1, EmptySeed
<1> QED BY <1>1, <1>2, <1>3 DEF OrderInv, PendingSent, SentPlaced, SeedPlaced

LEMMA SeedOrders ==
  ASSUME WorkInv, WorkInv', OrderInv,
         SeedAddsTag \/ SeedDies \/ \E l \in Seeded : SeedRow(l) \/ SeedPrunes(l)
  PROVE  OrderInv'
<1>1. seed # seedRests
  BY EmptySeed DEF SeedAddsTag, SeedDies, SeedRow, SeedPrunes
<1>2. /\ sent' = {}
      /\ \A c \in Call : call'[c] = Absent
      /\ \A l \in Lesson : lesson[l] # Absent => l \in Seeded
      /\ \A l \in Seeded \ seed.rows : lesson[l].order = SeedOrder[l]
      /\ seed \in SeedState
      /\ \A l \in Seeded : l \in Lesson /\ lesson[l] \in Row
  BY <1>1, SeedStatements, SeedAssumption DEF OrderInv, SeedPlaced, WorkInv, TypeInv, SeedAlone
<1>3. CASE SeedDies
  <2>1. lesson' = lesson /\ Seeded \ seed'.rows = {}
    BY <1>3, EmptySeed DEF SeedDies
  <2> QED BY <1>2, <2>1, SeededInOrder
<1>4. CASE SeedAddsTag
  <2>1. PICK k \in Seeded : \E tags : lesson' = [lesson EXCEPT ![k] = [@ EXCEPT !.tags = tags]]
    BY <1>2, <1>4 DEF SeedAddsTag, WorkInv, SeedAlone, SeedState
  <2>2. seed'.rows = seed.rows
    BY <1>2, <1>4 DEF SeedAddsTag, SeedState
  <2>3. /\ \A l \in Lesson : lesson'[l] # Absent => l \in Seeded
        /\ \A l \in Seeded \ seed'.rows : lesson'[l].order = SeedOrder[l]
    BY <1>2, <2>1, <2>2 DEF WorkInv, TypeInv, Row
  <2> QED BY <1>2, <2>3, SeededInOrder
<1>5. ASSUME NEW k \in Seeded, SeedPrunes(k)
      PROVE  OrderInv'
  <2>1. PICK tags : lesson' = [lesson EXCEPT ![k] = [@ EXCEPT !.tags = tags]]
    BY <1>5 DEF SeedPrunes
  <2>2. seed'.rows = seed.rows
    BY <1>2, <1>5 DEF SeedPrunes, SeedState
  <2>3. /\ \A l \in Lesson : lesson'[l] # Absent => l \in Seeded
        /\ \A l \in Seeded \ seed'.rows : lesson'[l].order = SeedOrder[l]
    BY <1>2, <2>1, <2>2 DEF WorkInv, TypeInv, Row
  <2> QED BY <1>2, <2>3, SeededInOrder
<1>6. ASSUME NEW k \in Seeded, SeedRow(k)
      PROVE  OrderInv'
  <2>1. lesson' = [lesson EXCEPT ![k] = [@ EXCEPT !.order = SeedOrder[k]]]
    BY <1>6 DEF SeedRow
  <2>2. seed'.rows = seed.rows \ {k}
    BY <1>2, <1>6 DEF SeedRow, SeedState
  <2>3. /\ \A l \in Lesson : lesson'[l] # Absent => l \in Seeded
        /\ \A l \in Seeded \ seed'.rows : lesson'[l].order = SeedOrder[l]
    BY <1>2, <2>1, <2>2 DEF WorkInv, TypeInv, Row
  <2> QED BY <1>2, <2>3, SeededInOrder
<1> QED BY <1>3, <1>4, <1>5, <1>6

\* A save mentions no order, and what editors do on their page moves no lesson.
LEMMA SaveOrders ==
  ASSUME WorkInv, OrderInv, NEW e \in Editor, onSave(e)
  PROVE  OrderInv'
<1>1. PICK c \in idle : save(e, c)
  BY DEF onSave
<1>2. PICK q : q = request(editor[e].lesson, None, editor[e].form)
  OBVIOUS
<1>3. ~ ordering(q)
  BY <1>2 DEF request, ordering
<1>4. \A d \in Call : call'[d] = IF d = c THEN q ELSE call[d]
  BY <1>1, <1>2 DEF save, WorkInv, TypeInv
<1>5. call[c] = Absent /\ c \in Call /\ UNCHANGED <<lesson, page, sent, seed>>
  BY <1>1 DEF save, idle
<1> QED BY <1>3, <1>4, <1>5, OrderQuiet DEF WorkInv, TypeInv

LEMMA OrderKept ==
  ASSUME WorkInv, OrderInv, [Next /\ ~ disturbed']_vars
  PROVE  OrderInv'
<1>1. WorkInv'
  BY WorkKept
<1>2. ASSUME UNCHANGED <<lesson, call, page, sent, seed>>
      PROVE  OrderInv'
  BY <1>2, OrderQuiet DEF WorkInv, TypeInv
<1>3. CASE Staff /\ ~ disturbed'
  BY <1>3, SaveOrders, MoveOrders, CreateOrders DEF Staff
<1>4. CASE Seed /\ ~ disturbed'
  BY <1>1, <1>4, SeedStartOrders, SeedOrders DEF Seed
<1>5. CASE LoadCourse
  BY <1>5, LoadOrders
<1>6. ASSUME NEW e \in Editor, (\E l \in Edited : OpenEditor(e, l)) \/ EditForm(e) \/ CloseEditor(e)
      PROVE  OrderInv'
  BY <1>2, <1>6 DEF OpenEditor, EditForm, CloseEditor
<1>7. ASSUME NEW c \in Call, Serve(c), ~ disturbed'
      PROVE  OrderInv'
  BY <1>7, WriteOrders, SyncOrders, SyncedOrders, FailOrders DEF Serve
<1>8. CASE UNCHANGED vars
  BY <1>2, <1>8 DEF vars
<1> QED BY <1>3, <1>4, <1>5, <1>6, <1>7, <1>8 DEF Next

LEMMA OrderInvariant == CarefulSpec => [](WorkInv /\ OrderInv)
<1>1. Init => WorkInv /\ OrderInv
  BY WorkStarts, OrderStarts
<1>2. (WorkInv /\ OrderInv) /\ [Next /\ ~ disturbed']_vars => (WorkInv /\ OrderInv)'
  BY WorkKept, OrderKept
<1> QED BY <1>1, <1>2, PTL DEF CarefulSpec

\* Staff who wait for a move to show before the next, and lose no half of one, never leave two
\* lessons in one place once the orders have arrived, whichever arrives first, and neither do
\* new lessons or the seed, wherever it died (moveLesson, handleCreateLesson, updateLesson,
\* seedPrograms).
THEOREM OrderStrict == CarefulSpec => []OrderStaysStrict
<1>1. WorkInv /\ OrderInv => OrderStaysStrict
  <2> SUFFICES ASSUME WorkInv, OrderInv, seed = seedRests, \A r \in pending : ~ ordering(r)
               PROVE  \A l, k \in DOMAIN ordersOf(lesson) :
                        l # k => lesson[l].order # lesson[k].order
    BY DEF OrderStaysStrict
  <2>1. Perm(ordersOf(lesson))
    BY Settled DEF pending, idle
  <2>2. /\ DOMAIN ordersOf(lesson) \subseteq Lesson
        /\ \A l \in DOMAIN ordersOf(lesson) : ordersOf(lesson)[l] = lesson[l].order
    BY OrdersType DEF WorkInv, TypeInv
  <2> QED BY <2>1, <2>2 DEF Perm
<1> QED BY <1>1, OrderInvariant, PTL

=============================================================================
