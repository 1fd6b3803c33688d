\* Two requests over one database, a restart now and then.
SPECIFICATION Spec
CONSTANTS
  npm = npm
  pypi = pypi
  team = team
  two = two
  NoName = NoName
  Repository = {npm, pypi}
  Group = {team, two}
  Numeral <- MCNumeral
  Seeds <- MCSeeds
  Artifact = {left_pad}
  Handler = {h1, h2}
  MaxRepository = 3
  MaxGroup = 2
  MaxPackage = 3
INVARIANTS TypeOK NoOrphans
PROPERTIES DeletedIsFinal RowsAreKept
