CONSTANTS
  Sys = {s1, s2, s3}
  IS_OVER = 10
  MaxWakes = 1
SPECIFICATION FairSleepSpec
PROPERTY AllEnd
