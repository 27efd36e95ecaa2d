SPECIFICATION FairSpec
CONSTANTS
  None = None
  filmed = filmed
  other = other
  demo = demo
  t1 = t1
  m1 = m1
  Lesson = {filmed, other, demo}
  Courses <- TwoCourses
  MediaDuration <- Media
  StoredDuration <- Measured
  Provider <- Kinds
  PlayerTime <- Times
  Tab = {t1}
  Screen = {m1}
  MobileLesson = {filmed}
  TurnsBack = FALSE
  MaxOpen = 1
  MaxInFlight = 2
  MaxFaults = 1
INVARIANTS
  TypeOK
  RowsAreOfTheirLesson
  ResumeAgreesWithCompletion
  WhatNextIsUnfinished
  ContinueIsResumable
PROPERTIES
  LastPositionSent
  RetriedAutomatically
