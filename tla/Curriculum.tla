----------------------------- MODULE Curriculum -----------------------------
(***************************************************************************)
(* Curriculum metadata (packages/shared/src/curriculum.ts): what is valid, *)
(* the tags a lesson stores it as, how it is read back from them, and the  *)
(* selects of the lesson editor that change it.                            *)
(*                                                                         *)
(* A tag is its key and its value; labels are left out.                    *)
(***************************************************************************)
EXTENDS SequencesExt

CONSTANTS
  None,
  curriculumCatalog  \* per discipline, the keys in their order: phases, tracks, skills, levels

\* Everything a catalog lists is a string; only a discipline's skills may be missing.
ASSUME CatalogAssumption ==
  /\ None \notin STRING
  /\ DOMAIN curriculumCatalog \subseteq STRING
  /\ \A d \in DOMAIN curriculumCatalog :
       /\ curriculumCatalog[d].phases \in Seq(STRING) \ {<<>>}
       /\ curriculumCatalog[d].levels \in Seq(STRING) \ {<<>>}
       /\ curriculumCatalog[d].skills \in Seq(STRING)
       /\ \A p \in ToSet(curriculumCatalog[d].phases) :
            curriculumCatalog[d].tracks[p] \in Seq(STRING) \ {<<>>}

curriculumDisciplineKeys == DOMAIN curriculumCatalog

getCurriculumPhaseKeys(d) == curriculumCatalog[d].phases
getCurriculumTrackKeys(d, p) == curriculumCatalog[d].tracks[p]
getCurriculumSkillKeys(d) == curriculumCatalog[d].skills
getCurriculumLevelKeys(d) == curriculumCatalog[d].levels

curriculumMetadataSchema(m) ==
  /\ m.discipline \in curriculumDisciplineKeys
  /\ m.phase \in ToSet(getCurriculumPhaseKeys(m.discipline))
  /\ m.track \in ToSet(getCurriculumTrackKeys(m.discipline, m.phase))
  /\ m.skill = None \/ m.skill \in ToSet(getCurriculumSkillKeys(m.discipline))
  /\ m.level \in ToSet(getCurriculumLevelKeys(m.discipline))

CurriculumMetadata ==
  UNION {UNION {
      [discipline : {d}, phase : {p}, track : ToSet(getCurriculumTrackKeys(d, p)),
       skill : {None} \cup ToSet(getCurriculumSkillKeys(d)),
       level : ToSet(getCurriculumLevelKeys(d))] :
    p \in ToSet(getCurriculumPhaseKeys(d))} : d \in curriculumDisciplineKeys}

-----------------------------------------------------------------------------
(* Tags *)

\* In the order they are written; the skill is optional.
createCurriculumTags(m) ==
  <<<<"discipline", m.discipline>>, <<"phase", m.phase>>, <<"track", m.track>>,
    <<"level", m.level>>>>
  \o (IF m.skill = None THEN <<>> ELSE <<<<"skill", m.skill>>>>)

tagsOf(m) == ToSet(createCurriculumTags(m))

\* The first tag of a key counts, and the rows come in no particular order: what each
\* order may read, None where it is not valid metadata.
parseCurriculumTags(tags) ==
  LET found(key) == {tag[2] : tag \in {t \in tags : t[1] = key}}
      orNone(values) == IF values = {} THEN {None} ELSE values
  IN  {IF curriculumMetadataSchema(m) THEN m ELSE None :
         m \in [discipline : orNone(found("discipline")), phase : orNone(found("phase")),
                track : orNone(found("track")), skill : orNone(found("skill")),
                level : orNone(found("level"))]}

createDefaultCurriculum(d) ==
  LET phase == Head(getCurriculumPhaseKeys(d))
      skills == getCurriculumSkillKeys(d)
  IN  [discipline |-> d, phase |-> phase, track |-> Head(getCurriculumTrackKeys(d, phase)),
       skill |-> IF skills = <<>> THEN None ELSE Head(skills),
       level |-> Head(getCurriculumLevelKeys(d))]

-----------------------------------------------------------------------------
(* The selects of the lesson editor's form *)

\* Mutant of choosePhase: the track of the phase before stays.
choosePhaseOnly(m, p) == [m EXCEPT !.phase = p]

choosePhase(m, p) ==
  LET tracks == getCurriculumTrackKeys(m.discipline, p)
  IN  [m EXCEPT !.phase = p, !.track = IF tracks = <<>> THEN @ ELSE Head(tracks)]

\* What one change of one select makes of the form.
edits(m) ==
  {createDefaultCurriculum(d) : d \in curriculumDisciplineKeys}
  \cup {choosePhase(m, p) : p \in ToSet(getCurriculumPhaseKeys(m.discipline))}
  \cup {[m EXCEPT !.track = t] : t \in ToSet(getCurriculumTrackKeys(m.discipline, m.phase))}
  \cup {[m EXCEPT !.skill = s] : s \in {None} \cup ToSet(getCurriculumSkillKeys(m.discipline))}
  \cup {[m EXCEPT !.level = l] : l \in ToSet(getCurriculumLevelKeys(m.discipline))}

=============================================================================
