----------------------------- MODULE Categories -----------------------------
(***************************************************************************)
(* The enumerations of data/enums.go and the tables that list them         *)
(* (data/generate/categories.go).  The program never looks a category up:  *)
(* a row's id is cast to the enumeration (MapToExperience and the like, in *)
(* data/db_pg.go), and the generator writes the enumeration's value as the *)
(* id.  The two agree only while the table is written in the right order.  *)
(* Every comparison of names ignores case: names are in lower case here.   *)
(***************************************************************************)
EXTENDS Integers, Sequences, SequencesExt

InvalidExperience == 0
Beginner     == 1
Intermediate == 2
Advanced     == 3
FirstTimer   == 4

OtherGender == 0
Female      == 1
Male        == 2

InvalidRuleset == 0
USWU   == 1
IWUF   == 2
IWUFAB == 3

\* mutant: the beginners' levels together
AllExperiencesByLevel == <<FirstTimer, Beginner, Intermediate, Advanced>>

AllExperiences == <<Beginner, Intermediate, Advanced, FirstTimer>>
AllGenders     == <<Female, Male>>
AllRulesets    == <<USWU, IWUF, IWUFAB>>

ExperienceString ==
    [e \in ToSet(AllExperiences) |->
        CASE e = Beginner -> "beginner" [] e = Intermediate -> "intermediate"
          [] e = Advanced -> "advanced" [] e = FirstTimer -> "firsttimer"]

ExperienceStringShort ==
    [e \in ToSet(AllExperiences) |->
        CASE e = Beginner -> "beg" [] e = Intermediate -> "int"
          [] e = Advanced -> "adv" [] e = FirstTimer -> "ft"]

GenderString ==
    [g \in ToSet(AllGenders) |-> IF g = Female THEN "female" ELSE "male"]

GenderStringShort ==
    [g \in ToSet(AllGenders) |-> IF g = Female THEN "f" ELSE "m"]

RulesetString ==
    [r \in ToSet(AllRulesets) |->
        CASE r = USWU -> "uswu" [] r = IWUF -> "iwuf" [] r = IWUFAB -> "iwuf-ab"]

\* the member of list that one of the namings calls s, or invalid
Named(s, list, namings, invalid) ==
    LET called == {v \in ToSet(list) : \E name \in namings : name[v] = s}
    IN IF called = {} THEN invalid ELSE CHOOSE v \in called : TRUE

ToExperience(s) ==
    Named(s, AllExperiences, {ExperienceString, ExperienceStringShort},
          InvalidExperience)

ToGender(s) == Named(s, AllGenders, {GenderString, GenderStringShort}, OtherGender)

\* the tables, a row's serial id being its position
Experiences == [i \in 1..Len(AllExperiences) |-> ExperienceString[AllExperiences[i]]]
Genders     == [i \in 1..Len(AllGenders) |-> GenderString[AllGenders[i]]]
Rulesets    == [i \in 1..Len(AllRulesets) |-> RulesetString[AllRulesets[i]]]

MapToExperience(dbID) == dbID
MapToGender(dbID)     == dbID
MapToRuleset(dbID)    == dbID
=============================================================================
