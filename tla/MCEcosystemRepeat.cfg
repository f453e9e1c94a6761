SPECIFICATION Spec
CONSTANTS
  here = here
  there = there
  hereSlug = hereSlug
  thereSlug = thereSlug
  path = path
  url = url
  mirror = mirror
  None = None
  Names = {here, there}
  Repos = {path, url, mirror}
  Urls = {url}
  Slugs = {hereSlug, thereSlug}
  Config <- MCConfig
  SlugOf <- MCSlugOf
PROPERTIES
  Repeatable
