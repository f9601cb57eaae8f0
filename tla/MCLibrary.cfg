\* bounds that are not here are in the module
CONSTANTS
  Leaf = Leaf
  MaxObject = MaxObject
  Null = Null
  Components = {
    "shape", "tree", "skip", "hash", "tops", "cells",
    "chain", "cache", "store", "fastcgi", "lz", "huffman",
    "arithmetic", "rl", "bwt", "filter", "string", "regex", "parser", "markup"}
  BlockTags = 100
  BlockPieces = 3

SPECIFICATION Spec

INVARIANTS
  TreeShaped
  ArraysWhole
  SpansExact
  CodersLossless
  ParsersExact

PROPERTIES
  TreeIsSorted
  SkipListIsSorted
  HashtableIsSet
  ListSound

\* the messages and the patterns stop growing
CHECK_DEADLOCK FALSE
