--------------------------- MODULE MCPublicReads ---------------------------
(***************************************************************************)
(* Families of polls for the read endpoints.  The cutoff is day 10; each   *)
(* family varies what the endpoint it is for tells apart: sources, grades, *)
(* days before and after the cutoff and missing ones, scopes, scenarios,   *)
(* noise, repeated keys and bundles.                                       *)
(***************************************************************************)
EXTENDS PublicReads

Opt(type, name, scenario, value) ==
  [type |-> type, name |-> name, scenario |-> scenario, kind |-> "", value |-> value,
   ok |-> TRUE, weak |-> FALSE]
Cand(name, scenario, value) == Opt("candidate_matchup", name, scenario, value)

Base ==
  [id |-> 0, key |-> "k", matchup |-> "m1", region |-> "seoul", office |-> "mayor",
   scope |-> "regional", survey |-> 11, channels |-> {"article"}, aggregate |-> FALSE,
   grade |-> 3, legal |-> 1, release |-> 0, published |-> 11, updated |-> 12,
   verified |-> TRUE, intent |-> "", legacy |-> FALSE, bundle |-> "b", options |-> {}]

National == [Base EXCEPT !.scope = "national", !.options = {Opt("party_support", "P", "default", 40)}]
Official(o) == [o EXCEPT !.channels = {"nesdc"}, !.release = 11]
Approval(o, type) == [o EXCEPT !.options = {Opt(type, "J", "default", 50)}]

SummaryPolls ==
  {[National EXCEPT !.key = "s1"],
   [National EXCEPT !.key = "s1", !.published = 9],
   [National EXCEPT !.key = "s2", !.grade = 4, !.survey = 9],
   [National EXCEPT !.key = "s2", !.grade = 4, !.aggregate = TRUE],
   [Official(National) EXCEPT !.key = "s3", !.grade = 2],
   [Official(National) EXCEPT !.key = "s4", !.grade = 4, !.survey = 9],
   [Official(National) EXCEPT !.key = "s5", !.verified = FALSE, !.grade = 5],
   [National EXCEPT !.key = "s6", !.scope = "none", !.grade = 5],
   [National EXCEPT !.key = "s7", !.survey = 0, !.published = 13]}

ApprovalPolls ==
  {[Approval(National, "presidential_approval") EXCEPT !.key = "a1"],
   [Approval(National, "presidential_approval") EXCEPT !.key = "a2", !.grade = 4],
   [Approval(National, "president_job_approval") EXCEPT !.key = "a3"],
   [Approval(Official(National), "president_job_approval") EXCEPT !.key = "a4", !.grade = 2],
   [Approval(Official(National), "president_job_approval") EXCEPT !.key = "a5", !.survey = 9],
   [Approval(Official(National), "presidential_approval") EXCEPT !.key = "a6", !.grade = 1],
   [Approval(National, "presidential_approval") EXCEPT !.key = "a7",
      !.options = {Opt("presidential_approval", "F", "default", 30)}]}

Race(a, b) == {Cand("A", "default", a), Cand("B", "default", b)}

MapPolls ==
  {[Base EXCEPT !.key = "r1", !.options = Race(45, 40)],
   [Base EXCEPT !.key = "r1", !.options = Race(45, 40), !.survey = 12],
   [Base EXCEPT !.key = "r2", !.survey = 12, !.options = Race(41, 44)],
   [Base EXCEPT !.key = "r3", !.survey = 13, !.options = Race(42, 42)],
   [Base EXCEPT !.key = "r4", !.survey = 13, !.scope = "local", !.options = Race(30, 35)],
   [Base EXCEPT !.key = "r5", !.survey = 14],
   [Base EXCEPT !.key = "r6", !.survey = 14, !.options = Race(50, Null) \cup {Cand("N", "default", 60)}],
   [Base EXCEPT !.key = "r7", !.survey = 12, !.channels = {"nesdc"}, !.options = Race(43, 47)],
   [Base EXCEPT !.key = "r8", !.matchup = "m2", !.region = "busan", !.office = "council",
      !.intent = "seoul", !.options = Race(39, 38)],
   [Base EXCEPT !.key = "r9", !.matchup = "m2", !.region = "busan", !.legacy = TRUE,
      !.options = {Cand("A", "s1", 45), Cand("A", "s2", 44), Cand("B", "s1", 20)}]}

PagePolls ==
  {[Base EXCEPT !.key = "p1", !.options = Race(45, 40)],
   [Base EXCEPT !.key = "p1", !.options = {}],
   [Base EXCEPT !.key = "p2", !.survey = 12, !.bundle = "c",
      !.options = {Cand("A", "s1", 45), Cand("B", "s1", 40), Cand("A", "s2", 44)}],
   [Base EXCEPT !.key = "p3", !.survey = 13, !.bundle = "c", !.options = Race(46, 41)],
   [Base EXCEPT !.key = "p4", !.survey = 12, !.options = Race(45, 39)],
   [Base EXCEPT !.key = "p5", !.survey = 0, !.bundle = "d",
      !.options = {Cand("A", "s1", 45), Cand("B", "s2", 40), [Cand("A", "default", 44) EXCEPT !.kind = "multi_candidate"]}],
   [Base EXCEPT !.key = "p6", !.survey = 13, !.bundle = "e", !.options = {Cand("N", "default", 60)}],
   [Base EXCEPT !.key = "p7", !.survey = 9, !.bundle = "f",
      !.options = {[Cand("A", "default", 44) EXCEPT !.weak = TRUE], [Cand("B", "default", 41) EXCEPT !.ok = FALSE]}]}

QualityPolls ==
  {[Base EXCEPT !.key = "q1", !.published = 0, !.updated = 1],
   [Base EXCEPT !.key = "q2", !.published = 2, !.updated = 3],
   [Official(Base) EXCEPT !.key = "q3", !.release = 1],
   [Official(Base) EXCEPT !.key = "q4", !.release = 0, !.published = 0, !.updated = 3],
   [Official(Base) EXCEPT !.key = "q5", !.verified = FALSE]}

MCPolls ==
  [summary |-> SummaryPolls, approval |-> ApprovalPolls, map |-> MapPolls,
   page |-> PagePolls, quality |-> QualityPolls]
MCFamilies == DOMAIN MCPolls

MCNameOrder == [A |-> 1, B |-> 2, F |-> 3, J |-> 4, N |-> 5, P |-> 6]
MCTitleOrder == [default |-> 2, s1 |-> 3, s2 |-> 1]
MCRegionOrder == [seoul |-> 2, busan |-> 1]
MCMatchupOrder == [m1 |-> 1, m2 |-> 2]
MCSido == [seoul |-> "seoul", busan |-> "busan"]
=============================================================================
