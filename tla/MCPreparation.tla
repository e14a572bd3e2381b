---------------------------- MODULE MCPreparation ----------------------------
EXTENDS Preparation

Fresh == [hat |-> "last", helm |-> TRUE, roomy |-> TRUE, buffs |-> {}, spot |-> "start",
          going |-> "nowhere", bag |-> {}, broken |-> FALSE, ailments |-> {},
          visible |-> FALSE, mode |-> "white", cooling |-> {}]
Worn == [Fresh EXCEPT !.hat = "avatar", !.buffs = {"speed", "poison"}, !.spot = "pvp",
         !.bag = {"hp", "universalPill"}, !.broken = TRUE,
         !.ailments = {"vitals", "legacy"}, !.visible = TRUE]
Hurt == [Worn EXCEPT !.roomy = FALSE, !.buffs = {}, !.bag = {"hammer", "hp"}, !.mode = "yellow",
         !.ailments = {"vitals", "modern"}]
Bare == [Worn EXCEPT !.helm = FALSE]

CharactersValue == {Fresh, Worn, Hurt}
BareValue == {Bare}
FreshValue == {Fresh}
RequirementsValue == <<"hp">>
DebuffsValue == {"poison"}
==============================================================================
