CONSTANTS
  Keys = {store, off}
  TextKeys = {store}
  Values = {v1, v2}
  Unset = Unset
  Null = Null
  Mistyped = Mistyped
  Garbled = Garbled
  Mended = v1
  Loose = Loose
  NoFile = NoFile
  FileTexts <- MCTexts
  Joined <- MCJoined
  BadText = BadText
  LongText = LongText
  Stray = Stray
  Nil = Nil
  MaxWait = 30000
SPECIFICATION ServiceSpec
INVARIANTS NearestWins LanguagesAgree HeardIsSaid OutcomeIsTold AnsweredIfUnderstood
